---- MODULE Spec2Model ----
(***************************************************************************)
(* Model of the load-test harness of src/pinecone_load_test.py:            *)
(* LoadTestMetrics / MultiNamespaceMetrics, the workers upsert_batch,      *)
(* query_random and query_namespace, the ThreadPoolExecutor they run on,   *)
(* and the orchestrators run_write_load_test, run_read_load_test and       *)
(* run_aggressive_multi_namespace_read_test.                               *)
(*                                                                         *)
(* One behaviour is one orchestrator invocation (a "run").  Threads        *)
(* interleave at the granularity of: a check of the stop event, the issue  *)
(* of a target call, its return, and inside LoadTestMetrics.record the     *)
(* lock acquisition, the counter store, and the append/release.            *)
(***************************************************************************)
EXTENDS Integers, Sequences, FiniteSets, TLC

\* ---------------------------------------------------------------- bounds
\* Largest thread count of a run (num_threads, or namespaces * threads_per_namespace).
MaxThreads == 2
\* Largest duration_seconds of a timed run.
MaxDuration == 1
\* Most target query calls issued in one timed run.
MaxCalls == 2
\* num_vectors ranges over multiples of BATCH_SIZE up to this many, plus a remainder.
MaxFullBatches == 2
\* Most latencies held by a collector whose summary() is computed on its own.
MaxLatencies == 5
\* The polls of a monitor that returned, and those that raised, are counted up to this.
MaxPolls == 2

\* ------------------------------------------------------- program constants
BATCH_SIZE == 100

\* Latencies a successful target call may be measured to take.  latency_ms is
\* a float: the model keeps it in thousandths of a millisecond (1234 is
\* 1.234 ms), so that round(x, 2) has digits to drop.
LatencyValues == {1234}
\* Sizes of the partial last batch tried (0: num_vectors is a multiple of BATCH_SIZE).
Remainders == {0, 1, 50, 99}
\* Milliseconds the clock may have advanced from metrics.start() to
\* metrics.stop(), sleeps apart: 3 ms (a short run against a fast target;
\* round(elapsed, 2) takes it to 0.0 seconds) or a second.
ClockSteps == {3, 1000}
\* stats.total_vector_count values the target may report.
VectorCounts == {0, 250}
\* stats.namespaces key lists the target may report ("" is the default namespace).
NamespaceChoices == {<< >>, <<"">>, <<"", "a">>}

\* None, as far as the model reads it: falsy, and no clock reading (the clock starts at 1).
None == 0
Threads == 1..MaxThreads

VARIABLES
    mode,                  \* which entry point runs: "write" | "read" | "storm" | ...
    num_vectors,           \* run_write_load_test argument
    num_threads,           \* run_write_load_test / run_read_load_test argument
    duration_seconds,      \* run_read_load_test / storm argument
    threads_per_namespace, \* storm argument
    namespaces,            \* storm: list(stats.namespaces.keys())
    main,                  \* orchestrator position and locals
    now,                   \* last wall-clock reading (milliseconds)
    metrics,               \* the run's LoadTestMetrics (global_metrics in a storm)
    per_namespace,         \* MultiNamespaceMetrics.per_namespace: namespace -> LoadTestMetrics
    agg_lock,              \* MultiNamespaceMetrics.lock holder (0: free)
    stop_event,            \* threading.Event
    executor,              \* ThreadPoolExecutor: max_workers, work queue, idle semaphore, shutdown
    futures,               \* submitted work items, in submission order
    thread,                \* per pool thread: position and locals
    reader,                \* a thread calling metrics.summary() during the run: position and locals
    remote,                \* the import or backup job on the service, as a status poll would find it
    monitor,               \* monitor_import / monitor_backup: position and locals
    hist                   \* history (ghost) counters read only by the properties

vars == <<mode, num_vectors, num_threads, duration_seconds, threads_per_namespace,
          namespaces, main, now, metrics, per_namespace, agg_lock, stop_event,
          executor, futures, thread, reader, remote, monitor, hist>>

args == <<mode, num_vectors, num_threads, duration_seconds, threads_per_namespace, namespaces>>

\* ---------------------------------------------------------------- helpers
Min(a, b) == IF a < b THEN a ELSE b

RECURSIVE SumSeq(_)
SumSeq(s) == IF s = << >> THEN 0 ELSE Head(s) + SumSeq(Tail(s))

RECURSIVE Insert(_, _)
Insert(x, s) ==
    IF s = << >> THEN <<x>>
    ELSE IF x <= Head(s) THEN <<x>> \o s
    ELSE <<Head(s)>> \o Insert(x, Tail(s))

\* sorted(xs): ascending
RECURSIVE sorted(_)
sorted(s) == IF s = << >> THEN << >> ELSE Insert(Head(s), sorted(Tail(s)))

\* ------------------------------------------------------- LoadTestMetrics
\* LoadTestMetrics.__init__
LoadTestMetrics ==
    [lock |-> 0, operation_count |-> 0, error_count |-> 0, latencies |-> << >>,
     start_time |-> None, end_time |-> None]

\* (mutant) record without the lock: nothing waits
lock_never_waits(m) == TRUE

\* `with self.lock:` of LoadTestMetrics.record blocks while another thread holds it.
lock_free(m) == m.lock = 0

\* record, first step: take the lock and load the counter the call will increment.
record_acquire(m, t, success) ==
    [m EXCEPT !.lock = t]

record_load(m, success) ==
    IF success THEN m.operation_count ELSE m.error_count

\* (mutant) a failure counted as an operation too
record_store_counts_failures(m, tmp, success) ==
    [m EXCEPT !.operation_count = tmp + 1]

\* record, second step: store counter + 1 (the `+= 1` of line 36 or line 39).
record_store(m, tmp, success) ==
    IF success THEN [m EXCEPT !.operation_count = tmp + 1]
    ELSE [m EXCEPT !.error_count = tmp + 1]

\* (mutant) the call returns with the lock still held
record_finish_no_release(m, latency_ms, success) ==
    IF success THEN [m EXCEPT !.latencies = Append(@, latency_ms)] ELSE m

\* (mutant) the latency is appended whatever the outcome
record_finish_appends_always(m, latency_ms, success) ==
    [m EXCEPT !.latencies = Append(@, latency_ms), !.lock = 0]

\* record, last step: on success append the latency (line 37); leave the `with` block.
record_finish(m, latency_ms, success) ==
    IF success THEN [m EXCEPT !.latencies = Append(@, latency_ms), !.lock = 0]
    ELSE [m EXCEPT !.lock = 0]

\* LoadTestMetrics.start / stop
start(m, t) == [m EXCEPT !.start_time = t]
stop(m, t) == [m EXCEPT !.end_time = t]


\* round(num / den, 2) in hundredths, ties to even (Python's round); den > 0
Round2(num, den) ==
    LET q == (100 * num) \div den
        r == (100 * num) % den
    IN  IF 2 * r < den THEN q
        ELSE IF 2 * r > den THEN q + 1
        ELSE IF q % 2 = 0 THEN q ELSE q + 1

\* round(statistics.median(xs), 2), in hundredths
median(xs) ==
    LET s == sorted(xs)
        n == Len(xs)
    IN  IF n % 2 = 1 THEN Round2(s[(n + 1) \div 2], 1000)
        ELSE Round2(s[n \div 2] + s[n \div 2 + 1], 2000)

\* (mutant) the index applied to the latencies in recording order
percentile_unsorted(xs, p) == xs[((Len(xs) * p) \div 100) + 1]

\* (mutant) the index rounded up
percentile_index_ceil(n, p) == (n * p + 99) \div 100

\* int(len(latencies) * p), p in hundredths: the 0-based index of lines 59-60
percentile_index(n, p) == (n * p) \div 100

\* sorted(latencies)[int(len(latencies) * p)]
percentile(xs, p) == sorted(xs)[percentile_index(Len(xs), p) + 1]

\* x or fallback: None and 0 are falsy
Or(x, fallback) == IF x = None THEN fallback ELSE x

\* (mutant) the counts-only summary carries a throughput field
summary_counts_with_rate(m, t) ==
    [operations |-> 0, errors |-> m.error_count,
     elapsed_sec |-> Or(m.end_time, t) - Or(m.start_time, t), ops_per_sec |-> 0]

\* LoadTestMetrics.summary, read at clock reading t (milliseconds).  The
\* latency statistics (round(..., 2) of values in ms), ops_per_sec and the
\* rounded elapsed_sec (round(elapsed, 2), seconds) are in hundredths; the
\* counts-only summary carries elapsed unrounded (here in milliseconds).
summary(m, t) ==
    LET elapsed == Or(m.end_time, t) - Or(m.start_time, t)
        n == Len(m.latencies)
    IN  IF m.latencies = << >>
        THEN [operations |-> 0, errors |-> m.error_count, elapsed_sec |-> elapsed]
        ELSE [operations |-> m.operation_count,
              errors |-> m.error_count,
              elapsed_sec |-> Round2(elapsed, 1000),
              ops_per_sec |-> IF elapsed > 0 THEN Round2(1000 * m.operation_count, elapsed) ELSE 0,
              avg_latency_ms |-> Round2(SumSeq(m.latencies), 1000 * n),
              p50_latency_ms |-> median(m.latencies),
              p95_latency_ms |-> Round2(percentile(m.latencies, 95), 1000),
              p99_latency_ms |-> Round2(percentile(m.latencies, 99), 1000),
              min_latency_ms |-> Round2(sorted(m.latencies)[1], 1000),
              max_latency_ms |-> Round2(sorted(m.latencies)[n], 1000)]

\* ------------------------------------------------------- vector generator
\* (mutant) ids numbered within the batch
generate_vector_batch_local_ids(start_id, count) ==
    [i \in 1..count |->
        [id |-> <<"vec-", i - 1>>,
         metadata |-> [batch_id |-> start_id \div BATCH_SIZE]]]

\* (mutant) each vector tagged by its own id
generate_vector_batch_tag_by_id(start_id, count) ==
    [i \in 1..count |->
        [id |-> <<"vec-", start_id + (i - 1)>>,
         metadata |-> [batch_id |-> (start_id + (i - 1)) \div BATCH_SIZE]]]

\* generate_vector_batch: ids "vec-{start_id + i}" (prefix and number), the
\* random values are not modelled.
generate_vector_batch(start_id, count) ==
    [i \in 1..count |->
        [id |-> <<"vec-", start_id + (i - 1)>>,
         metadata |-> [batch_id |-> start_id \div BATCH_SIZE]]]

\* the `vectors` argument of an upsert_batch work item
vectors_of(a) == generate_vector_batch(a.start_id, a.count)

\* ------------------------------------------------------ ThreadPoolExecutor
ThreadPoolExecutor(max_workers) ==
    [max_workers |-> max_workers, work_queue |-> << >>, idle_semaphore |-> 0,
     nthreads |-> 0, shutdown |-> FALSE]

NewThread ==
    [pc |-> "unspawned", task |-> 0, success |-> FALSE, latency_ms |-> 0,
     tmp |-> 0, late |-> 0]

\* (mutant) a pool that starts a thread for every work item that finds none idle
submit_unbounded(fn, a) ==
    LET i == Len(futures) + 1
        spawn == executor.idle_semaphore = 0 /\ executor.nthreads < MaxThreads
    IN  /\ futures' = Append(futures, [state |-> "PENDING", result |-> None, exception |-> FALSE,
                                        fn |-> fn, args |-> a])
        /\ executor' = [executor EXCEPT
                          !.work_queue = Append(@, i),
                          !.idle_semaphore = IF @ > 0 THEN @ - 1 ELSE @,
                          !.nthreads = IF spawn THEN @ + 1 ELSE @]
        /\ thread' = IF spawn
                     THEN [thread EXCEPT ![executor.nthreads + 1].pc = "idle"]
                     ELSE thread
        /\ hist' = [hist EXCEPT !.sent = Append(@, 0)]

\* executor.submit(fn, ...): queue a work item; start a thread unless one is
\* idle or max_workers threads exist (_adjust_thread_count).
submit(fn, a) ==
    LET i == Len(futures) + 1
        spawn == executor.idle_semaphore = 0 /\ executor.nthreads < executor.max_workers
    IN  /\ futures' = Append(futures, [state |-> "PENDING", result |-> None, exception |-> FALSE,
                                        fn |-> fn, args |-> a])
        /\ executor' = [executor EXCEPT
                          !.work_queue = Append(@, i),
                          !.idle_semaphore = IF @ > 0 THEN @ - 1 ELSE @,
                          !.nthreads = IF spawn THEN @ + 1 ELSE @]
        /\ thread' = IF spawn
                     THEN [thread EXCEPT ![executor.nthreads + 1].pc = "idle"]
                     ELSE thread
        /\ hist' = [hist EXCEPT !.sent = Append(@, 0)]

\* ------------------------------------------------------------------- Init
NumVectorsChoices == {q * BATCH_SIZE + r : q \in 0..MaxFullBatches, r \in Remainders}

InitArgs ==
    \/ /\ mode = "write"
       /\ num_vectors \in NumVectorsChoices
       /\ num_threads \in 1..MaxThreads
       /\ duration_seconds = 0 /\ threads_per_namespace = 0 /\ namespaces = << >>
    \/ /\ mode = "read"
       /\ num_threads \in 1..MaxThreads
       /\ duration_seconds \in 0..MaxDuration
       /\ num_vectors = 0 /\ threads_per_namespace = 0 /\ namespaces = << >>
    \/ /\ mode = "delete"
       /\ num_vectors = 0 /\ num_threads = 0 /\ duration_seconds = 0
       /\ threads_per_namespace = 0 /\ namespaces = << >>
    \/ /\ mode = "storm"
       /\ namespaces \in NamespaceChoices
       /\ threads_per_namespace \in 1..MaxThreads
       /\ Len(namespaces) * threads_per_namespace <= MaxThreads
       /\ duration_seconds \in 0..MaxDuration
       /\ num_vectors = 0 /\ num_threads = 0

\* every namespace key the target may report
AllNamespaces == UNION {{n[i] : i \in DOMAIN n} : n \in NamespaceChoices}

\* the orchestrator's locals; exc names the exception it raised ("": none)
InitMain ==
    [pc |-> "begin", total_batches |-> 0, batch_num |-> 0, vectors_upserted |-> 0,
     collected |-> {}, loop_start |-> 0, result |-> None, ns_summary |-> << >>,
     total_vectors |-> 0, exc |-> ""]

\* the observing thread has not called summary(); m holds the fields of the
\* collector as its call has read them, t its clock reading
InitReader == [pc |-> "idle", m |-> LoadTestMetrics, t |-> 0, result |-> None]

\* no import or backup job is watched
NoJob == [status |-> ""]

\* None where a status object is expected: an object with no status of the service
NoStatus == [status |-> "None"]

\* monitor_import / monitor_backup not yet called: status is the object the
\* last poll returned, result the value returned, interrupted whether Ctrl+C
\* ended the call; polls and errors count (up to MaxPolls each) the polls
\* that returned and the polls that raised
InitMonitor ==
    [pc |-> "begin", status |-> NoStatus, result |-> NoStatus, interrupted |-> FALSE,
     polls |-> 0, errors |-> 0]

\* history: nothing has happened.  ns_true / ns_false count, per namespace a
\* storm worker was launched for, its MultiNamespaceMetrics.record calls by
\* outcome; queried / keyed hold (work item, namespace) for every query issued
\* and every per_namespace lookup made; stats_calls, delete_calls and caught
\* count the calls of delete_all_vectors to the target and its handler's runs;
\* created counts the LoadTestMetrics built for each key of per_namespace, and
\* contended notes a lookup that began while another thread stood before the
\* same missing key.
InitHist ==
    [issued |-> 0, returned |-> 0, raised |-> 0, rec_true |-> 0, rec_false |-> 0,
     overlap |-> FALSE, start_calls |-> 0, stop_calls |-> 0, sent |-> << >>, ok |-> {},
     ns_true |-> [ns \in AllNamespaces |-> 0], ns_false |-> [ns \in AllNamespaces |-> 0],
     queried |-> {}, keyed |-> {}, stats_calls |-> 0, delete_calls |-> 0, caught |-> 0,
     created |-> [ns \in AllNamespaces |-> 0], contended |-> FALSE]

Init ==
    /\ InitArgs
    /\ main = InitMain
    /\ now = 1
    /\ metrics = LoadTestMetrics
    /\ per_namespace = << >>
    /\ agg_lock = 0
    /\ stop_event = FALSE
    /\ executor = ThreadPoolExecutor(0)
    /\ futures = << >>
    /\ thread = [t \in Threads |-> NewThread]
    /\ reader = InitReader
    /\ remote = NoJob
    /\ monitor = InitMonitor
    /\ hist = InitHist


\* ------------------------------------------------------ run_write_load_test
\* (mutant) total_batches rounded down: the partial last batch is dropped
run_write_load_test_begin_floor ==
    /\ mode = "write" /\ main.pc = "begin"
    /\ metrics' = start(LoadTestMetrics, now)
    /\ executor' = ThreadPoolExecutor(num_threads)
    /\ main' = [main EXCEPT !.pc = "submit",
                            !.total_batches = num_vectors \div BATCH_SIZE]
    /\ hist' = [hist EXCEPT !.start_calls = @ + 1]
    /\ UNCHANGED <<args, reader, remote, monitor, now, per_namespace, agg_lock, stop_event, futures, thread>>

\* lines 297-304: metrics, total_batches, metrics.start(), the executor
run_write_load_test_begin ==
    /\ mode = "write" /\ main.pc = "begin"
    /\ metrics' = start(LoadTestMetrics, now)
    /\ executor' = ThreadPoolExecutor(num_threads)
    /\ main' = [main EXCEPT !.pc = "submit",
                            !.total_batches = (num_vectors + BATCH_SIZE - 1) \div BATCH_SIZE]
    /\ hist' = [hist EXCEPT !.start_calls = @ + 1]
    /\ UNCHANGED <<args, reader, remote, monitor, now, per_namespace, agg_lock, stop_event, futures, thread>>

\* (mutant) the submission loop stops one batch short
run_write_load_test_submit_one_short ==
    /\ mode = "write" /\ main.pc = "submit"
    /\ IF main.batch_num < main.total_batches - 1
       THEN LET start_id == main.batch_num * BATCH_SIZE
                count == Min(BATCH_SIZE, num_vectors - start_id)
            IN  /\ submit("upsert_batch", [start_id |-> start_id, count |-> count])
                /\ main' = [main EXCEPT !.batch_num = @ + 1]
       ELSE /\ main' = [main EXCEPT !.pc = "collect"]
            /\ UNCHANGED <<executor, futures, thread, hist>>
    /\ UNCHANGED <<args, reader, remote, monitor, now, metrics, per_namespace, agg_lock, stop_event>>

\* lines 307-311: one iteration of the submission loop, or its exit.  The work
\* item carries vectors = generate_vector_batch(start_id, count); the state
\* keeps the two arguments, and vectors_of rebuilds the batch from them.
run_write_load_test_submit ==
    /\ mode = "write" /\ main.pc = "submit"
    /\ IF main.batch_num < main.total_batches
       THEN LET start_id == main.batch_num * BATCH_SIZE
                count == Min(BATCH_SIZE, num_vectors - start_id)
            IN  /\ submit("upsert_batch", [start_id |-> start_id, count |-> count])
                /\ main' = [main EXCEPT !.batch_num = @ + 1]
       ELSE /\ main' = [main EXCEPT !.pc = "collect"]
            /\ UNCHANGED <<executor, futures, thread, hist>>
    /\ UNCHANGED <<args, reader, remote, monitor, now, metrics, per_namespace, agg_lock, stop_event>>

\* lines 318-319: as_completed yields a finished future not yet yielded, and
\* future.result() returns its value or re-raises what the work item raised;
\* the loop ends when every future has been yielded
run_write_load_test_collect ==
    /\ mode = "write" /\ main.pc = "collect"
    /\ IF main.collected = DOMAIN futures
       THEN main' = [main EXCEPT !.pc = "shutdown"]
       ELSE \E i \in DOMAIN futures \ main.collected :
               /\ futures[i].state = "FINISHED"
               /\ main' = IF futures[i].exception
                          THEN [main EXCEPT !.pc = "raised"]
                          ELSE [main EXCEPT !.collected = @ \cup {i},
                                            !.vectors_upserted = @ + futures[i].result]
    /\ UNCHANGED <<args, reader, remote, monitor, now, metrics, per_namespace, agg_lock, stop_event,
                   executor, futures, thread, hist>>

\* leaving `with ThreadPoolExecutor(...)`: shutdown(wait=True) ...
executor_shutdown ==
    /\ main.pc = "shutdown"
    /\ executor' = [executor EXCEPT !.shutdown = TRUE]
    /\ main' = [main EXCEPT !.pc = "join"]
    /\ UNCHANGED <<args, reader, remote, monitor, now, metrics, per_namespace, agg_lock, stop_event,
                   futures, thread, hist>>

\* (mutant) shutdown(wait=False): the block is left with threads still running
executor_join_nowait ==
    /\ main.pc = "join"
    /\ main' = [main EXCEPT !.pc = "stop"]
    /\ UNCHANGED <<args, reader, remote, monitor, now, metrics, per_namespace, agg_lock, stop_event,
                   executor, futures, thread, hist>>

\* ... which joins every pool thread
executor_join ==
    /\ main.pc = "join"
    /\ \A t \in Threads : thread[t].pc \in {"unspawned", "exited"}
    /\ main' = [main EXCEPT !.pc = "stop"]
    /\ UNCHANGED <<args, reader, remote, monitor, now, metrics, per_namespace, agg_lock, stop_event,
                   executor, futures, thread, hist>>

\* metrics.stop() (lines 321, 374, 244); the clock may have moved on since its last reading
metrics_stop ==
    /\ main.pc = "stop"
    /\ \E d \in ClockSteps :
          /\ now' = now + d
          /\ metrics' = stop(metrics, now + d)
    /\ main' = [main EXCEPT !.pc = "report"]
    /\ hist' = [hist EXCEPT !.stop_calls = @ + 1]
    /\ UNCHANGED <<args, reader, remote, monitor, per_namespace, agg_lock, stop_event, executor, futures, thread>>

\* lines 324-336: the report divides vectors_upserted by summary['elapsed_sec']
\* (line 329: ZeroDivisionError on 0 or 0.0), then reads the other keys (line
\* 330 on: KeyError on a key the summary lacks), and returns vectors_upserted
run_write_load_test_report ==
    /\ mode = "write" /\ main.pc = "report"
    /\ LET s == summary(metrics, now)
           keys == {"operations", "errors", "elapsed_sec", "ops_per_sec", "avg_latency_ms",
                    "p50_latency_ms", "p95_latency_ms", "p99_latency_ms"}
       IN  IF s.elapsed_sec = 0
           THEN main' = [main EXCEPT !.pc = "raised", !.exc = "ZeroDivisionError"]
           ELSE IF ~(keys \subseteq DOMAIN s)
           THEN main' = [main EXCEPT !.pc = "raised", !.exc = "KeyError"]
           ELSE main' = [main EXCEPT !.pc = "returned", !.result = main.vectors_upserted]
    /\ UNCHANGED <<args, reader, remote, monitor, now, metrics, per_namespace, agg_lock, stop_event,
                   executor, futures, thread, hist>>


\* ------------------------------------------------------------ pool threads
\* _worker: work_queue.get() hands the thread the oldest queued work item
worker_get(t) ==
    /\ thread[t].pc = "idle"
    /\ executor.work_queue # << >>
    /\ LET i == Head(executor.work_queue)
       IN  /\ executor' = [executor EXCEPT !.work_queue = Tail(@)]
           /\ futures' = [futures EXCEPT ![i].state = "RUNNING"]
           /\ thread' = [thread EXCEPT ![t].task = i,
                                       ![t].pc = IF futures[i].fn = "upsert_batch"
                                                 THEN "call" ELSE "check"]
    /\ UNCHANGED <<args, reader, remote, monitor, main, now, metrics, per_namespace, agg_lock, stop_event, hist>>

\* _worker: after shutdown an idle thread finds the queue drained and exits
worker_exit(t) ==
    /\ thread[t].pc = "idle"
    /\ executor.work_queue = << >>
    /\ executor.shutdown
    /\ thread' = [thread EXCEPT ![t].pc = "exited"]
    /\ UNCHANGED <<args, reader, remote, monitor, main, now, metrics, per_namespace, agg_lock, stop_event,
                   executor, futures, hist>>

\* the work item's function has returned `result` (or, with exc, raised): the
\* future is finished and the thread goes back to the queue
worker_finish(t, result, exc) ==
    /\ futures' = [futures EXCEPT ![thread[t].task].state = "FINISHED",
                                  ![thread[t].task].result = result,
                                  ![thread[t].task].exception = exc]
    /\ executor' = [executor EXCEPT !.idle_semaphore = @ + 1]
    /\ thread' = [thread EXCEPT ![t] = [NewThread EXCEPT !.pc = "idle", !.late = thread[t].late]]

\* (mutant) every worker uses the first namespace discovered
namespace_of_first(t) == namespaces[1]

\* the `namespace` argument of the query_namespace call thread t runs
namespace_of(t) == futures[thread[t].task].args

\* the target call of thread t is issued (index.upsert / index.query);
\* hist.sent counts the upsert calls made for each batch
issue(t) ==
    /\ thread' = [thread EXCEPT ![t].pc = "inflight",
                                ![t].late = IF stop_event THEN @ + 1 ELSE @]
    /\ hist' = [hist EXCEPT !.issued = @ + 1,
                            !.sent[thread[t].task] =
                                IF futures[thread[t].task].fn = "upsert_batch" THEN @ + 1 ELSE @,
                            !.queried =
                                IF futures[thread[t].task].fn = "query_namespace"
                                THEN @ \cup {<<thread[t].task, namespace_of(t)>>} ELSE @]

\* upsert_batch line 87: index.upsert(vectors=vectors) is called
upsert_batch_call(t) ==
    /\ thread[t].pc = "call"
    /\ futures[thread[t].task].fn = "upsert_batch"
    /\ issue(t)
    /\ UNCHANGED <<args, reader, remote, monitor, main, now, metrics, per_namespace, agg_lock, stop_event,
                   executor, futures>>

\* the target call returns; the caller measures latency_ms and goes on to
\* metrics.record(latency_ms, success=True) (lines 88-89, 104-105, 163-164)
target_returns(t) ==
    /\ thread[t].pc = "inflight"
    /\ \E l \in LatencyValues :
          thread' = [thread EXCEPT ![t].pc = "record", ![t].success = TRUE,
                                   ![t].latency_ms = l]
    /\ hist' = [hist EXCEPT !.returned = @ + 1,
                            !.ok = IF futures[thread[t].task].fn = "upsert_batch"
                                   THEN @ \cup {thread[t].task} ELSE @]
    /\ UNCHANGED <<args, reader, remote, monitor, main, now, metrics, per_namespace, agg_lock, stop_event,
                   executor, futures>>

\* (mutant) no handler around the target call
except_nothing == FALSE

\* `except Exception as e:` (lines 91, 106, 165) catches what the target raises
except_Exception == TRUE

\* (mutant) the handler swallows the error without recording it
target_raises_unrecorded(t) ==
    /\ thread[t].pc = "inflight"
    /\ hist' = [hist EXCEPT !.raised = @ + 1]
    /\ thread' = [thread EXCEPT ![t].pc = IF futures[thread[t].task].fn = "upsert_batch"
                                          THEN "recorded" ELSE "check"]
    /\ UNCHANGED <<args, reader, remote, monitor, main, now, metrics, per_namespace, agg_lock, stop_event,
                   executor, futures>>

\* the target call raises; the handler goes on to metrics.record(0, success=False)
\* (lines 92, 107, 166).  Uncaught, the error would end the work item.
target_raises(t) ==
    /\ thread[t].pc = "inflight"
    /\ hist' = [hist EXCEPT !.raised = @ + 1]
    /\ IF except_Exception
       THEN /\ thread' = [thread EXCEPT ![t].pc = "record", ![t].success = FALSE,
                                        ![t].latency_ms = 0]
            /\ UNCHANGED <<executor, futures>>
       ELSE worker_finish(t, None, TRUE)
    /\ UNCHANGED <<args, reader, remote, monitor, main, now, metrics, per_namespace, agg_lock, stop_event>>

\* LoadTestMetrics.record on the run's collector, lines 34-36/39: lock, load.
\* hist counts the calls by their success argument, and notes when another
\* thread's call is under way at the same time.
metrics_record_acquire(t) ==
    /\ thread[t].pc = "record"
    /\ lock_free(metrics)
    /\ metrics' = record_acquire(metrics, t, thread[t].success)
    /\ thread' = [thread EXCEPT ![t].pc = "store",
                                ![t].tmp = record_load(metrics, thread[t].success)]
    /\ hist' = [hist EXCEPT
                  !.rec_true = IF thread[t].success THEN @ + 1 ELSE @,
                  !.rec_false = IF thread[t].success THEN @ ELSE @ + 1,
                  !.ns_true = IF futures[thread[t].task].fn = "query_namespace" /\ thread[t].success
                              THEN [@ EXCEPT ![futures[thread[t].task].args] = @ + 1] ELSE @,
                  !.ns_false = IF futures[thread[t].task].fn = "query_namespace" /\ ~thread[t].success
                               THEN [@ EXCEPT ![futures[thread[t].task].args] = @ + 1] ELSE @,
                  !.overlap = @ \/ \E u \in Threads \ {t} : thread[u].pc \in {"record", "store", "append"}]
    /\ UNCHANGED <<args, reader, remote, monitor, main, now, per_namespace, agg_lock, stop_event, executor, futures>>

\* lines 36/39: store
metrics_record_store(t) ==
    /\ thread[t].pc = "store"
    /\ metrics' = record_store(metrics, thread[t].tmp, thread[t].success)
    /\ thread' = [thread EXCEPT ![t].pc = "append", ![t].tmp = 0]
    /\ UNCHANGED <<args, reader, remote, monitor, main, now, per_namespace, agg_lock, stop_event, executor,
                   futures, hist>>

\* (mutant) a query worker goes from its record straight to the next query
metrics_record_finish_no_check(t) ==
    /\ thread[t].pc = "append"
    /\ metrics' = record_finish(metrics, thread[t].latency_ms, thread[t].success)
    /\ thread' = CASE futures[thread[t].task].fn = "upsert_batch" ->
                         [thread EXCEPT ![t].pc = "recorded"]
                   [] futures[thread[t].task].fn = "query_random" ->
                         [thread EXCEPT ![t].pc = "call", ![t].success = FALSE,
                                        ![t].latency_ms = 0]
                   [] futures[thread[t].task].fn = "query_namespace" ->
                         [thread EXCEPT ![t].pc = "ns_lookup"]
    /\ UNCHANGED <<args, reader, remote, monitor, main, now, per_namespace, agg_lock, stop_event, executor,
                   futures, hist>>

\* line 37 and the end of the `with` block; a storm worker goes on to the
\* per-namespace half of MultiNamespaceMetrics.record
metrics_record_finish(t) ==
    /\ thread[t].pc = "append"
    /\ metrics' = record_finish(metrics, thread[t].latency_ms, thread[t].success)
    /\ thread' = CASE futures[thread[t].task].fn = "upsert_batch" ->
                         [thread EXCEPT ![t].pc = "recorded"]
                   [] futures[thread[t].task].fn = "query_random" ->
                         [thread EXCEPT ![t].pc = "check", ![t].success = FALSE,
                                        ![t].latency_ms = 0]
                   [] futures[thread[t].task].fn = "query_namespace" ->
                         [thread EXCEPT ![t].pc = "ns_lookup"]
    /\ UNCHANGED <<args, reader, remote, monitor, main, now, per_namespace, agg_lock, stop_event, executor,
                   futures, hist>>

\* (mutant) a failed batch is credited with its size
upsert_batch_return_always_len(t) ==
    /\ thread[t].pc = "recorded"
    /\ futures[thread[t].task].fn = "upsert_batch"
    /\ worker_finish(t, Len(vectors_of(futures[thread[t].task].args)), FALSE)
    /\ UNCHANGED <<args, reader, remote, monitor, main, now, metrics, per_namespace, agg_lock, stop_event, hist>>

\* (mutant) a failed batch never returns (it is retried for ever)
upsert_batch_return_on_success_only(t) ==
    /\ thread[t].pc = "recorded"
    /\ futures[thread[t].task].fn = "upsert_batch"
    /\ thread[t].success
    /\ worker_finish(t, Len(vectors_of(futures[thread[t].task].args)), FALSE)
    /\ UNCHANGED <<args, reader, remote, monitor, main, now, metrics, per_namespace, agg_lock, stop_event, hist>>

\* upsert_batch lines 90/94: return len(vectors), or 0 after an error
upsert_batch_return(t) ==
    /\ thread[t].pc = "recorded"
    /\ futures[thread[t].task].fn = "upsert_batch"
    /\ worker_finish(t, IF thread[t].success THEN Len(vectors_of(futures[thread[t].task].args)) ELSE 0,
                     FALSE)
    /\ UNCHANGED <<args, reader, remote, monitor, main, now, metrics, per_namespace, agg_lock, stop_event, hist>>


\* (mutant) the loop never looks at the event
is_set_never == FALSE

\* stop_event.is_set()
is_set == stop_event

\* query_random line 99: the loop condition; the function returns once the
\* event is seen set.  (At most MaxCalls queries are begun in a run.)
query_random_check(t) ==
    /\ thread[t].pc = "check"
    /\ futures[thread[t].task].fn = "query_random"
    /\ IF is_set
       THEN /\ worker_finish(t, None, FALSE)
            /\ UNCHANGED hist
       ELSE /\ hist.issued < MaxCalls
            /\ thread' = [thread EXCEPT ![t].pc = "call"]
            /\ UNCHANGED <<executor, futures, hist>>
    /\ UNCHANGED <<args, reader, remote, monitor, main, now, metrics, per_namespace, agg_lock, stop_event>>

\* query_random lines 101-103: index.query(vector=query_vector, top_k=10) is called
query_random_call(t) ==
    /\ thread[t].pc = "call"
    /\ futures[thread[t].task].fn = "query_random"
    /\ issue(t)
    /\ UNCHANGED <<args, reader, remote, monitor, main, now, metrics, per_namespace, agg_lock, stop_event,
                   executor, futures>>

\* query_namespace line 158
query_namespace_check(t) ==
    /\ thread[t].pc = "check"
    /\ futures[thread[t].task].fn = "query_namespace"
    /\ IF is_set
       THEN /\ worker_finish(t, None, FALSE)
            /\ UNCHANGED hist
       ELSE /\ hist.issued < MaxCalls
            /\ thread' = [thread EXCEPT ![t].pc = "call"]
            /\ UNCHANGED <<executor, futures, hist>>
    /\ UNCHANGED <<args, reader, remote, monitor, main, now, metrics, per_namespace, agg_lock, stop_event>>

\* query_namespace lines 160-162: index.query(..., namespace=namespace) is called
query_namespace_call(t) ==
    /\ thread[t].pc = "call"
    /\ futures[thread[t].task].fn = "query_namespace"
    /\ issue(t)
    /\ UNCHANGED <<args, reader, remote, monitor, main, now, metrics, per_namespace, agg_lock, stop_event,
                   executor, futures>>

\* --------------------------------------------------- MultiNamespaceMetrics
\* (mutant) the lookup without the lock: nothing waits
agg_lock_never_waits == TRUE

\* `with self.lock:` of MultiNamespaceMetrics.record blocks while another thread holds it.
agg_lock_free == agg_lock = 0

\* MultiNamespaceMetrics.record line 122: `with self.lock:`
ns_lookup_acquire(t) ==
    /\ thread[t].pc = "ns_lookup"
    /\ agg_lock_free
    /\ agg_lock' = t
    /\ thread' = [thread EXCEPT ![t].pc = "ns_get"]
    /\ hist' = [hist EXCEPT !.contended =
                    @ \/ /\ namespace_of(t) \notin DOMAIN per_namespace
                         /\ \E u \in Threads \ {t} :
                               /\ thread[u].pc \in {"ns_lookup", "ns_get", "ns_missing"}
                               /\ futures[thread[u].task].args = futures[thread[t].task].args]
    /\ UNCHANGED <<args, reader, remote, monitor, main, now, metrics, per_namespace, stop_event, executor,
                   futures>>

\* line 123: per_namespace[namespace], a defaultdict.  A key that is present
\* gives its collector, and the `with` block ends; a missing key goes through
\* __missing__, with the lock still held.
ns_get(t) ==
    /\ thread[t].pc = "ns_get"
    /\ IF namespace_of(t) \in DOMAIN per_namespace
       THEN /\ agg_lock' = 0
            /\ thread' = [thread EXCEPT ![t].pc = "ns_record"]
            /\ hist' = [hist EXCEPT !.keyed = @ \cup {<<thread[t].task, namespace_of(t)>>}]
       ELSE /\ thread' = [thread EXCEPT ![t].pc = "ns_missing"]
            /\ UNCHANGED <<agg_lock, hist>>
    /\ UNCHANGED <<args, reader, remote, monitor, main, now, metrics, per_namespace, stop_event, executor, futures>>

\* line 123, defaultdict.__missing__: LoadTestMetrics() is built and stored
\* under the key (whatever the key held is replaced); the `with` block ends
ns_missing(t) ==
    /\ thread[t].pc = "ns_missing"
    /\ per_namespace' = [k \in DOMAIN per_namespace \cup {namespace_of(t)} |->
                            IF k = namespace_of(t) THEN LoadTestMetrics ELSE per_namespace[k]]
    /\ agg_lock' = 0
    /\ thread' = [thread EXCEPT ![t].pc = "ns_record"]
    /\ hist' = [hist EXCEPT !.keyed = @ \cup {<<thread[t].task, namespace_of(t)>>},
                            !.created[futures[thread[t].task].args] = @ + 1]
    /\ UNCHANGED <<args, reader, remote, monitor, main, now, metrics, stop_event, executor, futures>>

\* line 124: ns_metrics.record(latency_ms, success), as metrics_record_* above
ns_record_acquire(t) ==
    /\ thread[t].pc = "ns_record"
    /\ lock_free(per_namespace[namespace_of(t)])
    /\ per_namespace' = [per_namespace EXCEPT ![namespace_of(t)] =
                            record_acquire(@, t, thread[t].success)]
    /\ thread' = [thread EXCEPT ![t].pc = "ns_store",
                                ![t].tmp = record_load(per_namespace[namespace_of(t)],
                                                       thread[t].success)]
    /\ UNCHANGED <<args, reader, remote, monitor, main, now, metrics, agg_lock, stop_event, executor, futures, hist>>

\* (mutant) the per-namespace counter stepped by two
ns_record_store_twice(t) ==
    /\ thread[t].pc = "ns_store"
    /\ per_namespace' = [per_namespace EXCEPT ![namespace_of(t)] =
                            record_store(@, thread[t].tmp + 1, thread[t].success)]
    /\ thread' = [thread EXCEPT ![t].pc = "ns_append", ![t].tmp = 0]
    /\ UNCHANGED <<args, reader, remote, monitor, main, now, metrics, agg_lock, stop_event, executor, futures, hist>>

ns_record_store(t) ==
    /\ thread[t].pc = "ns_store"
    /\ per_namespace' = [per_namespace EXCEPT ![namespace_of(t)] =
                            record_store(@, thread[t].tmp, thread[t].success)]
    /\ thread' = [thread EXCEPT ![t].pc = "ns_append", ![t].tmp = 0]
    /\ UNCHANGED <<args, reader, remote, monitor, main, now, metrics, agg_lock, stop_event, executor, futures, hist>>

ns_record_finish(t) ==
    /\ thread[t].pc = "ns_append"
    /\ per_namespace' = [per_namespace EXCEPT ![namespace_of(t)] =
                            record_finish(@, thread[t].latency_ms, thread[t].success)]
    /\ thread' = [thread EXCEPT ![t].pc = "check", ![t].success = FALSE, ![t].latency_ms = 0]
    /\ UNCHANGED <<args, reader, remote, monitor, main, now, metrics, agg_lock, stop_event, executor, futures, hist>>

\* (mutant) the failures counted among the queries
per_namespace_summary_queries_with_errors(pn) ==
    [ns \in {k \in DOMAIN pn : pn[k].latencies # << >>} |->
        [queries |-> pn[ns].operation_count + pn[ns].error_count,
         errors |-> pn[ns].error_count,
         avg_ms |-> Round2(SumSeq(pn[ns].latencies), 1000 * Len(pn[ns].latencies)),
         p50_ms |-> median(pn[ns].latencies)]]

\* (mutant) an entry for every key of per_namespace
per_namespace_summary_all(pn) ==
    [ns \in DOMAIN pn |->
        [queries |-> pn[ns].operation_count,
         errors |-> pn[ns].error_count,
         avg_ms |-> IF pn[ns].latencies = << >> THEN 0
                    ELSE Round2(SumSeq(pn[ns].latencies), 1000 * Len(pn[ns].latencies)),
         p50_ms |-> IF pn[ns].latencies = << >> THEN 0 ELSE median(pn[ns].latencies)]]

\* MultiNamespaceMetrics.per_namespace_summary on the copy pn of per_namespace
\* (lines 138-147): an entry for every collector that holds a latency
per_namespace_summary(pn) ==
    [ns \in {k \in DOMAIN pn : pn[k].latencies # << >>} |->
        [queries |-> pn[ns].operation_count,
         errors |-> pn[ns].error_count,
         avg_ms |-> Round2(SumSeq(pn[ns].latencies), 1000 * Len(pn[ns].latencies)),
         p50_ms |-> median(pn[ns].latencies)]]

\* ------------------------------------------------------- run_read_load_test
\* lines 348-354
run_read_load_test_begin ==
    /\ mode = "read" /\ main.pc = "begin"
    /\ metrics' = start(LoadTestMetrics, now)
    /\ stop_event' = FALSE
    /\ executor' = ThreadPoolExecutor(num_threads)
    /\ main' = [main EXCEPT !.pc = "submit"]
    /\ hist' = [hist EXCEPT !.start_calls = @ + 1]
    /\ UNCHANGED <<args, reader, remote, monitor, now, per_namespace, agg_lock, futures, thread>>

\* lines 356-362: one executor.submit of the comprehension (batch_num counts
\* them), or its end and `start = time.time()`
run_read_load_test_submit ==
    /\ mode = "read" /\ main.pc = "submit"
    /\ IF main.batch_num < num_threads
       THEN /\ submit("query_random", << >>)
            /\ main' = [main EXCEPT !.batch_num = @ + 1]
       ELSE /\ main' = [main EXCEPT !.pc = "progress", !.loop_start = now]
            /\ UNCHANGED <<executor, futures, thread, hist>>
    /\ UNCHANGED <<args, reader, remote, monitor, now, metrics, per_namespace, agg_lock, stop_event>>

\* the progress loops (lines 363-368, 225-239): while the duration has not
\* elapsed, report and sleep(1)
progress_sleep ==
    /\ mode \in {"read", "storm"} /\ main.pc = "progress"
    /\ now - main.loop_start < 1000 * duration_seconds
    /\ now' = now + 1000
    /\ UNCHANGED <<args, reader, remote, monitor, main, metrics, per_namespace, agg_lock, stop_event,
                   executor, futures, thread, hist>>

\* (mutant) the block is left without setting the event
stop_event_set_forgotten ==
    /\ mode \in {"read", "storm"} /\ main.pc = "progress"
    /\ ~(now - main.loop_start < 1000 * duration_seconds)
    /\ main' = [main EXCEPT !.pc = "shutdown"]
    /\ UNCHANGED <<args, reader, remote, monitor, now, metrics, per_namespace, agg_lock, stop_event, executor,
                   futures, thread, hist>>

\* (mutant) the event is set while the duration has not elapsed
stop_event_set_early ==
    /\ mode \in {"read", "storm"} /\ main.pc = "progress"
    /\ stop_event' = TRUE
    /\ main' = [main EXCEPT !.pc = "shutdown"]
    /\ UNCHANGED <<args, reader, remote, monitor, now, metrics, per_namespace, agg_lock, executor, futures,
                   thread, hist>>

\* lines 371, 241: the loop is over; stop_event.set()
stop_event_set ==
    /\ mode \in {"read", "storm"} /\ main.pc = "progress"
    /\ ~(now - main.loop_start < 1000 * duration_seconds)
    /\ stop_event' = TRUE
    /\ main' = [main EXCEPT !.pc = "shutdown"]
    /\ UNCHANGED <<args, reader, remote, monitor, now, metrics, per_namespace, agg_lock, executor, futures,
                   thread, hist>>

\* the keys the read and storm reports print (lines 377-387, 250-260)
ReportKeys ==
    {"operations", "errors", "elapsed_sec", "ops_per_sec", "avg_latency_ms",
     "p50_latency_ms", "p95_latency_ms", "p99_latency_ms", "min_latency_ms",
     "max_latency_ms"}

\* lines 377-387: a key the summary lacks raises KeyError
run_read_load_test_report ==
    /\ mode = "read" /\ main.pc = "report"
    /\ main' = IF ReportKeys \subseteq DOMAIN summary(metrics, now)
               THEN [main EXCEPT !.pc = "returned"]
               ELSE [main EXCEPT !.pc = "raised", !.exc = "KeyError"]
    /\ UNCHANGED <<args, reader, remote, monitor, now, metrics, per_namespace, agg_lock, stop_event,
                   executor, futures, thread, hist>>

\* ------------------------- run_aggressive_multi_namespace_read_test (storm)
\* (mutant) no check for an empty namespace list
run_aggressive_multi_namespace_read_test_begin_unguarded ==
    /\ mode = "storm" /\ main.pc = "begin"
    /\ metrics' = start(LoadTestMetrics, now)
    /\ per_namespace' = << >>
    /\ agg_lock' = 0
    /\ stop_event' = FALSE
    /\ executor' = ThreadPoolExecutor(Len(namespaces) * threads_per_namespace)
    /\ main' = [main EXCEPT !.pc = "submit"]
    /\ hist' = [hist EXCEPT !.start_calls = @ + 1]
    /\ UNCHANGED <<args, reader, remote, monitor, now, futures, thread>>

\* (mutant) a pool of one thread per namespace
run_aggressive_multi_namespace_read_test_begin_small_pool ==
    /\ mode = "storm" /\ main.pc = "begin"
    /\ IF namespaces = << >>
       THEN /\ main' = [main EXCEPT !.pc = "returned"]
            /\ UNCHANGED <<metrics, per_namespace, agg_lock, stop_event, executor, hist>>
       ELSE /\ metrics' = start(LoadTestMetrics, now)
            /\ per_namespace' = << >>
            /\ agg_lock' = 0
            /\ stop_event' = FALSE
            /\ executor' = ThreadPoolExecutor(Len(namespaces))
            /\ main' = [main EXCEPT !.pc = "submit"]
            /\ hist' = [hist EXCEPT !.start_calls = @ + 1]
    /\ UNCHANGED <<args, reader, remote, monitor, now, futures, thread>>

\* lines 189-214: no namespaces: return; else the metrics, the event,
\* metrics.start() and the executor
run_aggressive_multi_namespace_read_test_begin ==
    /\ mode = "storm" /\ main.pc = "begin"
    /\ IF namespaces = << >>
       THEN /\ main' = [main EXCEPT !.pc = "returned"]
            /\ UNCHANGED <<metrics, per_namespace, agg_lock, stop_event, executor, hist>>
       ELSE /\ metrics' = start(LoadTestMetrics, now)
            /\ per_namespace' = << >>
            /\ agg_lock' = 0
            /\ stop_event' = FALSE
            /\ executor' = ThreadPoolExecutor(Len(namespaces) * threads_per_namespace)
            /\ main' = [main EXCEPT !.pc = "submit"]
            /\ hist' = [hist EXCEPT !.start_calls = @ + 1]
    /\ UNCHANGED <<args, reader, remote, monitor, now, futures, thread>>

\* lines 216-223: the nested submission loops, flattened (batch_num counts the
\* submissions: namespace by namespace, threads_per_namespace each)
run_aggressive_multi_namespace_read_test_submit ==
    /\ mode = "storm" /\ main.pc = "submit"
    /\ IF main.batch_num < Len(namespaces) * threads_per_namespace
       THEN /\ submit("query_namespace", namespaces[(main.batch_num \div threads_per_namespace) + 1])
            /\ main' = [main EXCEPT !.batch_num = @ + 1]
       ELSE /\ main' = [main EXCEPT !.pc = "progress", !.loop_start = now]
            /\ UNCHANGED <<executor, futures, thread, hist>>
    /\ UNCHANGED <<args, reader, remote, monitor, now, metrics, per_namespace, agg_lock, stop_event>>

\* lines 250-284: the aggregate report, which raises KeyError on a key the
\* summary lacks, then ns_summary = metrics.per_namespace_summary() (taken
\* under MultiNamespaceMetrics.lock, which no thread holds any more) and its table
run_aggressive_multi_namespace_read_test_report ==
    /\ mode = "storm" /\ main.pc = "report"
    /\ agg_lock = 0
    /\ main' = IF ReportKeys \subseteq DOMAIN summary(metrics, now)
               THEN [main EXCEPT !.pc = "returned",
                                 !.ns_summary = per_namespace_summary(per_namespace)]
               ELSE [main EXCEPT !.pc = "raised", !.exc = "KeyError"]
    /\ UNCHANGED <<args, reader, remote, monitor, now, metrics, per_namespace, agg_lock, stop_event,
                   executor, futures, thread, hist>>

\* ------------------------------------------------------- delete_all_vectors
\* lines 398-399: stats = index.describe_index_stats(), which returns a
\* total_vector_count or raises
delete_all_vectors_stats ==
    /\ mode = "delete" /\ main.pc = "begin"
    /\ \/ \E c \in VectorCounts : main' = [main EXCEPT !.pc = "check", !.total_vectors = c]
       \/ main' = [main EXCEPT !.pc = "except"]
    /\ hist' = [hist EXCEPT !.stats_calls = @ + 1]
    /\ UNCHANGED <<args, reader, remote, monitor, now, metrics, per_namespace, agg_lock, stop_event,
                   executor, futures, thread>>

\* (mutant) no short circuit on an empty index
delete_all_vectors_check_always_deletes ==
    /\ mode = "delete" /\ main.pc = "check"
    /\ main' = [main EXCEPT !.pc = "delete"]
    /\ UNCHANGED <<args, reader, remote, monitor, now, metrics, per_namespace, agg_lock, stop_event,
                   executor, futures, thread, hist>>

\* lines 402-404: nothing to delete: return
delete_all_vectors_check ==
    /\ mode = "delete" /\ main.pc = "check"
    /\ main' = [main EXCEPT !.pc = IF main.total_vectors = 0 THEN "returned" ELSE "delete"]
    /\ UNCHANGED <<args, reader, remote, monitor, now, metrics, per_namespace, agg_lock, stop_event,
                   executor, futures, thread, hist>>

\* lines 407-409: index.delete(delete_all=True), which returns or raises
delete_all_vectors_delete ==
    /\ mode = "delete" /\ main.pc = "delete"
    /\ \/ main' = [main EXCEPT !.pc = "verify"]
       \/ main' = [main EXCEPT !.pc = "except"]
    /\ hist' = [hist EXCEPT !.delete_calls = @ + 1]
    /\ UNCHANGED <<args, reader, remote, monitor, now, metrics, per_namespace, agg_lock, stop_event,
                   executor, futures, thread>>

\* lines 414-416: time.sleep(2), then the stats are read again and the count
\* left is reported, whatever it is; the call may raise
delete_all_vectors_verify ==
    /\ mode = "delete" /\ main.pc = "verify"
    /\ now' = now + 2000
    /\ \/ main' = [main EXCEPT !.pc = "returned"]
       \/ main' = [main EXCEPT !.pc = "except"]
    /\ hist' = [hist EXCEPT !.stats_calls = @ + 1]
    /\ UNCHANGED <<args, reader, remote, monitor, metrics, per_namespace, agg_lock, stop_event,
                   executor, futures, thread>>

\* lines 418-419: the handler reports the error and the function returns
delete_all_vectors_except ==
    /\ mode = "delete" /\ main.pc = "except"
    /\ main' = [main EXCEPT !.pc = IF except_Exception THEN "returned" ELSE "raised"]
    /\ hist' = [hist EXCEPT !.caught = @ + 1]
    /\ UNCHANGED <<args, reader, remote, monitor, now, metrics, per_namespace, agg_lock, stop_event,
                   executor, futures, thread>>

\* ------------------------------------------- summary() of a lone collector
\* Latencies and error counts of the collectors summary() is applied to.
SummaryLatencies == {10000, 12346, 20000, 30000, 40000, 100000}
ErrorCounts == {0, 2}

\* A collector after some record calls, started or not, stopped or not
\* (stop() is only ever called after start()); the clock reads 1001 ms.
InitSummary ==
    /\ mode = "summary"
    /\ num_vectors = 0 /\ num_threads = 0 /\ duration_seconds = 0
    /\ threads_per_namespace = 0 /\ namespaces = << >>
    /\ main = InitMain
    /\ now = 1001
    /\ \E k \in 0..MaxLatencies : \E l \in [1..k -> SummaryLatencies] :
       \E e \in ErrorCounts : \E st \in {None, 1} :
       \E en \in IF st = None THEN {None} ELSE {None, 1, 4, 1001} :
          metrics = [lock |-> 0, operation_count |-> Len(l), error_count |-> e,
                     latencies |-> l, start_time |-> st, end_time |-> en]
    /\ per_namespace = << >>
    /\ agg_lock = 0
    /\ stop_event = FALSE
    /\ executor = ThreadPoolExecutor(0)
    /\ futures = << >>
    /\ thread = [t \in Threads |-> NewThread]
    /\ reader = InitReader
    /\ remote = NoJob
    /\ monitor = InitMonitor
    /\ hist = InitHist

\* summary = metrics.summary() (lines 47-63)
summary_call ==
    /\ mode = "summary" /\ main.pc = "begin"
    /\ main' = [main EXCEPT !.pc = "returned", !.result = summary(metrics, now)]
    /\ UNCHANGED <<args, reader, remote, monitor, now, metrics, per_namespace, agg_lock, stop_event,
                   executor, futures, thread, hist>>

\* ------------------------------- summary() called while the workers record
\* LoadTestMetrics.summary takes no lock: a thread that calls it during a run
\* reads the fields of the collector one after the other, between the steps
\* of the workers' record calls.
\* lines 48-50: elapsed, and `if not self.latencies`: the counts-only summary
summary_enter ==
    /\ reader.pc = "idle"
    /\ LET m == [LoadTestMetrics EXCEPT !.start_time = metrics.start_time,
                                        !.end_time = metrics.end_time]
       IN  reader' = IF metrics.latencies = << >>
                     THEN [reader EXCEPT !.pc = "done", !.t = now,
                                         !.m = [m EXCEPT !.error_count = metrics.error_count],
                                         !.result = summary([m EXCEPT !.error_count = metrics.error_count], now)]
                     ELSE [reader EXCEPT !.pc = "counts", !.t = now, !.m = m]
    /\ UNCHANGED <<args, remote, monitor, main, now, metrics, per_namespace, agg_lock,
                   stop_event,
                   executor, futures, thread, hist>>

\* lines 53-56: self.operation_count and self.error_count are read
summary_counts ==
    /\ reader.pc = "counts"
    /\ reader' = [reader EXCEPT !.pc = "latencies",
                                !.m.operation_count = metrics.operation_count,
                                !.m.error_count = metrics.error_count]
    /\ UNCHANGED <<args, remote, monitor, main, now, metrics, per_namespace, agg_lock,
                   stop_event,
                   executor, futures, thread, hist>>

\* lines 57-63: self.latencies is read for the statistics, and the dict returned
summary_latencies ==
    /\ reader.pc = "latencies"
    /\ LET m == [reader.m EXCEPT !.latencies = metrics.latencies]
       IN  reader' = [reader EXCEPT !.pc = "done", !.m = m, !.result = summary(m, reader.t)]
    /\ UNCHANGED <<args, remote, monitor, main, now, metrics, per_namespace, agg_lock,
                   stop_event,
                   executor, futures, thread, hist>>

\* ------------------------------------- monitor_import (src/bulk_import.py)
\* The statuses of an import: the three that monitor_import ends on, and the others.
ImportTerminal == {"Completed", "Failed", "Cancelled"}
ImportStatuses == {"Pending", "InProgress"} \cup ImportTerminal

\* The statuses of a backup: the three that monitor_backup ends on, and the others.
BackupTerminal == {"Ready", "Failed", "Cancelled"}
BackupStatuses == {"Initializing", "Pending"} \cup BackupTerminal

\* a count that stops at MaxPolls
UpTo(n) == IF n < MaxPolls THEN n + 1 ELSE n

\* monitor_import is called for an import in any status
InitImport ==
    /\ mode = "monitor_import"
    /\ num_vectors = 0 /\ num_threads = 0 /\ duration_seconds = 0
    /\ threads_per_namespace = 0 /\ namespaces = << >>
    /\ main = InitMain
    /\ now = 1
    /\ metrics = LoadTestMetrics
    /\ per_namespace = << >>
    /\ agg_lock = 0
    /\ stop_event = FALSE
    /\ executor = ThreadPoolExecutor(0)
    /\ futures = << >>
    /\ thread = [t \in Threads |-> NewThread]
    /\ reader = InitReader
    /\ \E st \in ImportStatuses : remote = [status |-> st]
    /\ monitor = InitMonitor
    /\ hist = InitHist

\* the service works on the job: a status that is not final gives way to another
remote_advance ==
    /\ \/ mode = "monitor_import" /\ remote.status \in ImportStatuses \ ImportTerminal
          /\ \E st \in ImportStatuses \ {remote.status} : remote' = [remote EXCEPT !.status = st]
       \/ mode = "monitor_backup" /\ remote.status \in BackupStatuses \ BackupTerminal
          /\ \E st \in BackupStatuses \ {remote.status} : remote' = [remote EXCEPT !.status = st]
    /\ UNCHANGED <<args, reader, monitor, main, now, metrics, per_namespace, agg_lock,
                   stop_event, executor, futures, thread, hist>>

\* lines 23-35: the banner, the locals, and into `try: while True: try:`
monitor_import_begin ==
    /\ mode = "monitor_import" /\ monitor.pc = "begin"
    /\ monitor' = [monitor EXCEPT !.pc = "poll"]
    /\ UNCHANGED <<args, reader, remote, main, now, metrics, per_namespace, agg_lock,
                   stop_event, executor, futures, thread, hist>>

\* line 37: status = index.describe_import(id=import_id), which returns the
\* import as it is or raises
monitor_import_poll ==
    /\ mode = "monitor_import" /\ monitor.pc = "poll"
    /\ \/ monitor' = [monitor EXCEPT !.pc = "decide", !.status = [status |-> remote.status],
                                     !.polls = UpTo(@)]
       \/ monitor' = [monitor EXCEPT !.pc = "except", !.errors = UpTo(@)]
    /\ UNCHANGED <<args, reader, remote, main, now, metrics, per_namespace, agg_lock,
                   stop_event, executor, futures, thread, hist>>

\* lines 38-75: the progress line, then `return status` on Completed (line
\* 65) and on Failed or Cancelled (line 73); otherwise time.sleep(poll_interval).
\* The fields of the response have the types the SDK declares, so the lines
\* that print them do not raise.
monitor_import_decide ==
    /\ mode = "monitor_import" /\ monitor.pc = "decide"
    /\ monitor' = IF monitor.status.status = "Completed"
                  THEN [monitor EXCEPT !.pc = "returned", !.result = monitor.status]
                  ELSE IF monitor.status.status \in {"Failed", "Cancelled"}
                  THEN [monitor EXCEPT !.pc = "returned", !.result = monitor.status]
                  ELSE [monitor EXCEPT !.pc = "sleep"]
    /\ UNCHANGED <<args, reader, remote, main, now, metrics, per_namespace, agg_lock,
                   stop_event, executor, futures, thread, hist>>

\* (mutant) an error raised by the poll ends the monitoring
monitor_import_except_gives_up ==
    /\ mode = "monitor_import" /\ monitor.pc = "except"
    /\ monitor' = [monitor EXCEPT !.pc = "returned", !.result = NoStatus]
    /\ UNCHANGED <<args, reader, remote, main, now, metrics, per_namespace, agg_lock,
                   stop_event, executor, futures, thread, hist>>

\* lines 79-81: `except Exception`: the error is printed, then time.sleep(poll_interval)
monitor_import_except ==
    /\ mode = "monitor_import" /\ monitor.pc = "except"
    /\ monitor' = [monitor EXCEPT !.pc = "sleep"]
    /\ UNCHANGED <<args, reader, remote, main, now, metrics, per_namespace, agg_lock,
                   stop_event, executor, futures, thread, hist>>

\* lines 75, 81 and 35: the sleep is over, the loop goes round
monitor_import_sleep ==
    /\ mode = "monitor_import" /\ monitor.pc = "sleep"
    /\ monitor' = [monitor EXCEPT !.pc = "poll"]
    /\ UNCHANGED <<args, reader, remote, main, now, metrics, per_namespace, agg_lock,
                   stop_event, executor, futures, thread, hist>>

\* lines 77-78 and 83-86: Ctrl+C anywhere in the loop (in the poll, the
\* report, a sleep or the error handler) is re-raised by the inner handler
\* and caught by the outer one, which returns None
monitor_import_interrupt ==
    /\ mode = "monitor_import" /\ monitor.pc \in {"poll", "decide", "except", "sleep"}
    /\ monitor' = [monitor EXCEPT !.pc = "returned", !.result = NoStatus, !.interrupted = TRUE]
    /\ UNCHANGED <<args, reader, remote, main, now, metrics, per_namespace, agg_lock,
                   stop_event, executor, futures, thread, hist>>

\* ----------------------------------- monitor_backup (src/pinecone_backup.py)
\* monitor_backup is called for a backup in any status
InitBackup ==
    /\ mode = "monitor_backup"
    /\ num_vectors = 0 /\ num_threads = 0 /\ duration_seconds = 0
    /\ threads_per_namespace = 0 /\ namespaces = << >>
    /\ main = InitMain
    /\ now = 1
    /\ metrics = LoadTestMetrics
    /\ per_namespace = << >>
    /\ agg_lock = 0
    /\ stop_event = FALSE
    /\ executor = ThreadPoolExecutor(0)
    /\ futures = << >>
    /\ thread = [t \in Threads |-> NewThread]
    /\ reader = InitReader
    /\ \E st \in BackupStatuses : remote = [status |-> st]
    /\ monitor = InitMonitor
    /\ hist = InitHist

\* lines 12-19: the banner, the locals, and into `while True: try:`
monitor_backup_begin ==
    /\ mode = "monitor_backup" /\ monitor.pc = "begin"
    /\ monitor' = [monitor EXCEPT !.pc = "poll"]
    /\ UNCHANGED <<args, reader, remote, main, now, metrics, per_namespace, agg_lock,
                   stop_event, executor, futures, thread, hist>>

\* lines 20-21: backup = pc.describe_backup(backup_id=backup_id), which
\* returns the backup as it is or raises
monitor_backup_poll ==
    /\ mode = "monitor_backup" /\ monitor.pc = "poll"
    /\ \/ monitor' = [monitor EXCEPT !.pc = "decide", !.status = [status |-> remote.status],
                                     !.polls = UpTo(@)]
       \/ monitor' = [monitor EXCEPT !.pc = "except", !.errors = UpTo(@)]
    /\ UNCHANGED <<args, reader, remote, main, now, metrics, per_namespace, agg_lock,
                   stop_event, executor, futures, thread, hist>>

\* (mutant) only a Ready backup is returned
monitor_backup_decide_ready_only ==
    /\ mode = "monitor_backup" /\ monitor.pc = "decide"
    /\ monitor' = IF monitor.status.status = "Ready"
                  THEN [monitor EXCEPT !.pc = "returned", !.result = monitor.status]
                  ELSE [monitor EXCEPT !.pc = "sleep"]
    /\ UNCHANGED <<args, reader, remote, main, now, metrics, per_namespace, agg_lock,
                   stop_event, executor, futures, thread, hist>>

\* lines 22-53: the status line, then `return backup` on Ready (line 45) and
\* on Failed or Cancelled (line 51); otherwise time.sleep(poll_interval).
\* The fields of the response have the types the SDK declares (record_count
\* and size_bytes are integers where present), so the lines that print them
\* do not raise.
monitor_backup_decide ==
    /\ mode = "monitor_backup" /\ monitor.pc = "decide"
    /\ monitor' = IF monitor.status.status = "Ready"
                  THEN [monitor EXCEPT !.pc = "returned", !.result = monitor.status]
                  ELSE IF monitor.status.status \in {"Failed", "Cancelled"}
                  THEN [monitor EXCEPT !.pc = "returned", !.result = monitor.status]
                  ELSE [monitor EXCEPT !.pc = "sleep"]
    /\ UNCHANGED <<args, reader, remote, main, now, metrics, per_namespace, agg_lock,
                   stop_event, executor, futures, thread, hist>>

\* lines 55-57: `except Exception`: the error is printed, then time.sleep(poll_interval)
monitor_backup_except ==
    /\ mode = "monitor_backup" /\ monitor.pc = "except"
    /\ monitor' = [monitor EXCEPT !.pc = "sleep"]
    /\ UNCHANGED <<args, reader, remote, main, now, metrics, per_namespace, agg_lock,
                   stop_event, executor, futures, thread, hist>>

\* lines 53, 57 and 18: the sleep is over, the loop goes round
monitor_backup_sleep ==
    /\ mode = "monitor_backup" /\ monitor.pc = "sleep"
    /\ monitor' = [monitor EXCEPT !.pc = "poll"]
    /\ UNCHANGED <<args, reader, remote, main, now, metrics, per_namespace, agg_lock,
                   stop_event, executor, futures, thread, hist>>

\* ------------------------------------------------------------------- Next
CommonThread(t) ==
    \/ worker_get(t)
    \/ worker_exit(t)
    \/ target_returns(t)
    \/ target_raises(t)
    \/ metrics_record_acquire(t)
    \/ metrics_record_store(t)
    \/ metrics_record_finish(t)

WriteThread(t) ==
    \/ upsert_batch_call(t)
    \/ upsert_batch_return(t)

TimedThread(t) ==
    \/ query_random_check(t)
    \/ query_random_call(t)
    \/ query_namespace_check(t)
    \/ query_namespace_call(t)
    \/ ns_lookup_acquire(t)
    \/ ns_get(t)
    \/ ns_missing(t)
    \/ ns_record_acquire(t)
    \/ ns_record_store(t)
    \/ ns_record_finish(t)

CommonMain ==
    \/ executor_shutdown
    \/ executor_join
    \/ metrics_stop

WriteMain ==
    \/ run_write_load_test_begin
    \/ run_write_load_test_submit
    \/ run_write_load_test_collect
    \/ run_write_load_test_report

TimedMain ==
    \/ run_read_load_test_begin
    \/ run_read_load_test_submit
    \/ progress_sleep
    \/ stop_event_set
    \/ run_read_load_test_report
    \/ run_aggressive_multi_namespace_read_test_begin
    \/ run_aggressive_multi_namespace_read_test_submit
    \/ run_aggressive_multi_namespace_read_test_report

DeleteMain ==
    \/ delete_all_vectors_stats
    \/ delete_all_vectors_check
    \/ delete_all_vectors_delete
    \/ delete_all_vectors_verify
    \/ delete_all_vectors_except

ThreadStep(t) == CommonThread(t) \/ WriteThread(t) \/ TimedThread(t)
MainStep == CommonMain \/ WriteMain \/ TimedMain \/ DeleteMain

Next == MainStep \/ \E t \in Threads : ThreadStep(t)

\* every orchestrator
Spec == Init /\ [][Next]_vars

\* run_write_load_test alone
NextWrite == CommonMain \/ WriteMain \/ \E t \in Threads : (CommonThread(t) \/ WriteThread(t))
InitWrite == Init /\ mode = "write"
SpecWrite == InitWrite /\ [][NextWrite]_vars

\* the timed runs (read and storm) alone
NextTimed == CommonMain \/ TimedMain \/ \E t \in Threads : (CommonThread(t) \/ TimedThread(t))
InitTimed == Init /\ mode \in {"read", "storm"}
SpecTimed == InitTimed /\ [][NextTimed]_vars

\* run_write_load_test with a thread that calls metrics.summary() once, at any moment
ReaderStep == summary_enter \/ summary_counts \/ summary_latencies
NextObserved == NextWrite \/ ReaderStep
SpecObserved == InitWrite /\ [][NextObserved]_vars

\* monitor_import, with the service and the keyboard
MonitorImportStep ==
    \/ monitor_import_begin
    \/ monitor_import_poll
    \/ monitor_import_decide
    \/ monitor_import_except
    \/ monitor_import_sleep
NextImport == MonitorImportStep \/ monitor_import_interrupt \/ remote_advance
SpecImport == InitImport /\ [][NextImport]_vars

\* monitor_backup, with the service
MonitorBackupStep ==
    \/ monitor_backup_begin
    \/ monitor_backup_poll
    \/ monitor_backup_decide
    \/ monitor_backup_except
    \/ monitor_backup_sleep
NextBackup == MonitorBackupStep \/ remote_advance
SpecBackup == InitBackup /\ [][NextBackup]_vars
\* Scheduling: monitor_backup keeps running (its polls and sleeps end);
\* nothing is assumed of the service or of the outcomes of the polls.
FairSpecBackup == SpecBackup /\ WF_vars(MonitorBackupStep)

\* LoadTestMetrics.summary alone
NextSummary == summary_call
SpecSummary == InitSummary /\ [][NextSummary]_vars

\* Scheduling: the orchestrator and every pool thread are OS threads that
\* keep running, and every target call in flight returns or raises.
FairSpecWrite ==
    /\ SpecWrite
    /\ WF_vars(CommonMain \/ WriteMain)
    /\ \A t \in Threads : WF_vars(CommonThread(t) \/ WriteThread(t))
FairSpecTimed ==
    /\ SpecTimed
    /\ WF_vars(CommonMain \/ TimedMain)
    /\ \A t \in Threads : WF_vars(CommonThread(t) \/ TimedThread(t))


\* ================================================================ claims
Terminal == main.pc \in {"returned", "raised"}
PoolThreadsGone == \A t \in Threads : thread[t].pc \in {"unspawned", "exited"}
InRecordBody(t) == thread[t].pc \in {"store", "append"}
Count(S) == Cardinality(S)

\* C1: whenever no record call on the run's collector is under way, however
\* the calls of the workers interleaved, operation_count is the number of
\* record calls made with success=True and error_count the number made with
\* success=False.
C1_NoLostUpdate ==
    (\A t \in Threads : ~InRecordBody(t)) =>
        /\ metrics.operation_count = hist.rec_true
        /\ metrics.error_count = hist.rec_false

\* two record calls overlapped, successes and a failure were recorded, and every call is over
C1_Witness ==
    /\ hist.overlap
    /\ hist.rec_true >= 1 /\ hist.rec_false >= 1
    /\ \A t \in Threads : thread[t].pc \notin {"record", "store", "append"}
    /\ Terminal

\* C2: whenever a collector's lock is free (the states other threads can
\* observe), its operation_count is the length of its latencies.
C2_CountIsLenLatencies ==
    /\ lock_free(metrics) => metrics.operation_count = Len(metrics.latencies)
    /\ \A ns \in DOMAIN per_namespace :
          lock_free(per_namespace[ns]) =>
              per_namespace[ns].operation_count = Len(per_namespace[ns].latencies)

\* successes and a failure are on record, the lock is free
C2_Witness ==
    /\ lock_free(metrics)
    /\ metrics.operation_count >= 2
    /\ metrics.error_count >= 1

\* C3: at every moment each target call issued is either still on its way to
\* the collector (in flight, or its record call has not yet stored the
\* counter) or counted exactly once: the calls that returned under
\* operation_count, the calls that raised under error_count.
C3_OneRecordPerCall ==
    LET pending(ok) == Count({t \in Threads :
                                /\ thread[t].pc \in {"record", "store"}
                                /\ thread[t].success = ok})
        inflight == Count({t \in Threads : thread[t].pc = "inflight"})
    IN  /\ metrics.operation_count + pending(TRUE) = hist.returned
        /\ metrics.error_count + pending(FALSE) = hist.raised
        /\ hist.returned + hist.raised + inflight = hist.issued

\* a run is over in which calls returned and a call raised
C3_Witness ==
    /\ Terminal
    /\ hist.returned >= 1 /\ hist.raised >= 1
    /\ metrics.operation_count + metrics.error_count = hist.issued

\* C4: no target call is issued before metrics.start(); metrics.stop() is
\* called at most once, only with every pool thread gone, and exactly once
\* in a run that started and reached its end; from stop() on the collectors
\* do not change.
C4_StartStopBracketRun ==
    /\ [](/\ hist.issued > 0 => (hist.start_calls = 1 /\ metrics.start_time # None)
          /\ hist.stop_calls <= 1
          /\ hist.stop_calls = 1 => PoolThreadsGone
          /\ (Terminal /\ hist.start_calls = 1) => hist.stop_calls = 1)
    /\ [][hist.stop_calls = 1 =>
            /\ metrics'.operation_count = metrics.operation_count
            /\ metrics'.error_count = metrics.error_count
            /\ metrics'.latencies = metrics.latencies
            /\ per_namespace' = per_namespace]_vars

\* a storm run is over, stopped once, after queries of both outcomes
C4_Witness ==
    /\ mode = "storm" /\ Terminal
    /\ hist.stop_calls = 1
    /\ hist.returned >= 1 /\ hist.raised >= 1

\* C5 as stated: once the stop signal is set no further target call is issued.
C5_NoCallAfterStop == [][stop_event => hist.issued' = hist.issued]_vars

\* C5, amended: once the stop signal is set, each worker issues at most one
\* further query (the one whose loop check came before the set), and none
\* after a check that saw the signal.
C5_AtMostOneCallAfterStop ==
    /\ \A t \in Threads : thread[t].late <= 1
    /\ \A t \in Threads : (stop_event /\ thread[t].late = 1) => thread[t].pc # "call"

\* a worker's query went out after the signal was set
C5_Witness == stop_event /\ \E t \in Threads : thread[t].late = 1 /\ thread[t].pc = "inflight"


\* C6: an error raised by a target call ends neither the worker nor the run:
\* no work item ends by an exception; a query worker ends only once the stop
\* signal is set, and after recording a failure goes back to its loop check,
\* from which it goes on to a query unless the signal is set; a write run
\* leaves its pool only with every batch sent and finished; and the run
\* raises nothing before metrics.stop().
C6_ErrorsNotFatal ==
    /\ [](/\ \A i \in DOMAIN futures : ~futures[i].exception
          /\ \A i \in DOMAIN futures :
                (futures[i].fn # "upsert_batch" /\ futures[i].state = "FINISHED") => stop_event
          /\ (mode = "write" /\ main.pc \in {"shutdown", "join", "stop", "report", "returned", "raised"}) =>
                /\ Len(futures) = main.total_batches
                /\ \A i \in DOMAIN futures : futures[i].state = "FINISHED" /\ hist.sent[i] = 1
          /\ main.pc = "raised" => hist.stop_calls = 1)
    /\ [][\A t \in Threads :
            /\ (thread[t].pc = "inflight" /\ thread'[t].pc # "inflight" /\ hist'.raised # hist.raised)
                  => (thread'[t].pc = "record" /\ ~thread'[t].success)
            /\ (thread[t].pc = "check" /\ thread'[t].pc # "check" /\ ~stop_event)
                  => thread'[t].pc = "call"]_vars

\* a lone read worker has a query in flight after an earlier one failed and was recorded
C6_Witness ==
    /\ mode = "read" /\ num_threads = 1
    /\ metrics.error_count >= 1
    /\ ~stop_event
    /\ thread[1].pc = "inflight"

\* C7: a timed run (read or storm) ends, and one that started its metrics
\* goes through metrics.stop() to the summary, whatever the outcomes of its
\* queries, given that every target call in flight returns or raises.
C7_TimedRunTerminates ==
    /\ <>Terminal
    /\ (hist.start_calls = 1) ~> (hist.stop_calls = 1 /\ PoolThreadsGone /\ main.pc \in {"report", "returned", "raised"})

\* a timed run is over in which no query succeeded
C7_Witness ==
    /\ mode \in {"read", "storm"} /\ Terminal
    /\ hist.stop_calls = 1
    /\ hist.raised >= 1 /\ hist.returned = 0


\* the positions of run_write_load_test after its as_completed loop
AfterCollect == main.pc \in {"shutdown", "join", "stop", "report", "returned", "raised"}

\* C8: a write run reaches metrics.stop() with every batch of its work list
\* submitted and finished, whatever num_vectors, num_threads >= 1 and the
\* outcomes of the upserts, given that every upsert call returns or raises.
C8_WriteRunTerminates ==
    <>(/\ hist.stop_calls = 1
       /\ Len(futures) = (num_vectors + BATCH_SIZE - 1) \div BATCH_SIZE
       /\ \A i \in DOMAIN futures : futures[i].state = "FINISHED")

\* a write run of three batches on two threads has stopped after a failed upsert
C8_Witness ==
    /\ mode = "write" /\ hist.stop_calls = 1
    /\ Len(futures) = 3 /\ num_threads = 2
    /\ hist.raised >= 1

\* C9: no batch is sent twice and no two threads hold the same batch; once the
\* as_completed loop is over every batch of the work list has been sent
\* exactly once and operation_count + error_count = total_batches.
C9_EachBatchOnce ==
    /\ \A i \in DOMAIN futures : hist.sent[i] <= 1
    /\ \A t, u \in Threads : (t # u /\ thread[t].task # 0) => thread[t].task # thread[u].task
    /\ AfterCollect =>
          /\ Len(futures) = (num_vectors + BATCH_SIZE - 1) \div BATCH_SIZE
          /\ \A i \in DOMAIN futures : hist.sent[i] = 1
          /\ metrics.operation_count + metrics.error_count = Len(futures)

\* the pool has been left after three batches on two threads, one of them failed
C9_Witness ==
    /\ mode = "write" /\ main.pc = "stop"
    /\ num_threads = 2 /\ main.total_batches = 3
    /\ metrics.error_count = 1

RECURSIVE SumSizes(_)
SumSizes(S) ==
    IF S = {} THEN 0
    ELSE LET i == CHOOSE x \in S : TRUE IN Len(vectors_of(futures[i].args)) + SumSizes(S \ {i})

\* C10: after the as_completed loop vectors_upserted, and at the return the
\* value returned, is the sum of the sizes of the batches whose upsert call
\* returned; it is at most num_vectors, and num_vectors when no upsert raised.
C10_ResultIsSumOfSucceeded ==
    /\ (mode = "write" /\ AfterCollect) =>
          /\ main.vectors_upserted = SumSizes(hist.ok)
          /\ main.vectors_upserted <= num_vectors
          /\ hist.raised = 0 => main.vectors_upserted = num_vectors
    /\ (mode = "write" /\ main.pc = "returned") => main.result = main.vectors_upserted

\* 250 vectors, of which a batch of 100 failed and the others succeeded: 150 is returned
C10_Witness ==
    /\ mode = "write" /\ main.pc = "returned"
    /\ num_vectors = 250
    /\ hist.raised = 1
    /\ main.result = 150

\* the positions of run_write_load_test after its submission loop
AfterSubmit == mode = "write" /\ main.pc \notin {"begin", "submit"}

\* the size of the batch built for work item i
BatchSize(i) == Len(vectors_of(futures[i].args))

\* ceil(n / d): the least k with k * d >= n
Ceil(n, d) == CHOOSE k \in 0..n : k * d >= n /\ (k - 1) * d < n

\* C11: for num_vectors >= 1 the submission loop builds ceil(num_vectors /
\* BATCH_SIZE) batches; every batch but the last has BATCH_SIZE vectors, the
\* last between 1 and BATCH_SIZE, and the sizes sum to num_vectors; 250
\* vectors give batches of 100, 100 and 50.
C11_BatchPartition ==
    (AfterSubmit /\ num_vectors >= 1) =>
        LET n == Len(futures)
        IN  /\ n = Ceil(num_vectors, BATCH_SIZE)
            /\ \A i \in 1..(n - 1) : BatchSize(i) = BATCH_SIZE
            /\ BatchSize(n) \in 1..BATCH_SIZE
            /\ SumSizes(1..n) = num_vectors
            /\ num_vectors = 250 => [i \in 1..n |-> BatchSize(i)] = <<100, 100, 50>>

\* the three batches of a run of 250 vectors have been built
C11_Witness ==
    /\ AfterSubmit /\ num_vectors = 250
    /\ Len(futures) = 3
    /\ BatchSize(3) = 50

\* C12: summary() on a collector with no recorded success, whatever its
\* failures, started or not, stopped or not, returns exactly the operation
\* count 0, the error count and the elapsed time, with no latency or ops/sec
\* field, and does not raise.
C12_CountsOnlySummary ==
    /\ main.pc # "raised"
    /\ (main.pc = "returned" /\ metrics.operation_count = 0) =>
          /\ DOMAIN main.result = {"operations", "errors", "elapsed_sec"}
          /\ main.result.operations = 0
          /\ main.result.errors = metrics.error_count
          /\ main.result.elapsed_sec =
                (IF metrics.end_time = None THEN now ELSE metrics.end_time)
                - (IF metrics.start_time = None THEN now ELSE metrics.start_time)

\* the summary of a started and stopped collector holding two failures has been returned
C12_Witness ==
    /\ mode = "summary" /\ main.pc = "returned"
    /\ metrics.operation_count = 0 /\ metrics.error_count = 2
    /\ metrics.start_time = 1 /\ metrics.end_time = 4
    /\ main.result.elapsed_sec = 3

\* C13: a run in which no target call succeeds (every call fails, or a write
\* run has no batch) still ends normally: its orchestrator finishes its
\* report of the counts-only summary without raising.
C13_NoSuccessRunReturns ==
    (Terminal /\ hist.returned = 0) => main.pc = "returned"

\* the entries of xs below v, and at most v
Below(xs, v) == Cardinality({i \in DOMAIN xs : xs[i] < v})
AtMost(xs, v) == Cardinality({i \in DOMAIN xs : xs[i] <= v})

\* the element at index k (from 0) of xs put in ascending order
Ranked(xs, k) ==
    CHOOSE v \in {xs[i] : i \in DOMAIN xs} : Below(xs, v) <= k /\ k < AtMost(xs, v)

Abs(x) == IF x < 0 THEN -x ELSE x

\* h (hundredths of a ms) is x (thousandths of a ms, times n) rounded to two decimals
Rounded(h, x, n) == 2 * Abs(10 * n * h - x) <= 10 * n

\* C14 as stated: for N >= 1 recorded latencies summary() reports p95 and p99
\* as the elements at index floor(0.95*N) and floor(0.99*N) of the latencies
\* in ascending order, with their median, minimum and maximum.
C14_ReportsTheElements ==
    (main.pc = "returned" /\ metrics.latencies # << >>) =>
        LET xs == metrics.latencies
            N == Len(xs)
            r == main.result
        IN  /\ 10 * r.p95_latency_ms = Ranked(xs, (95 * N) \div 100)
            /\ 10 * r.p99_latency_ms = Ranked(xs, (99 * N) \div 100)
            /\ 20 * r.p50_latency_ms = IF N % 2 = 1
                                       THEN 2 * Ranked(xs, (N - 1) \div 2)
                                       ELSE Ranked(xs, N \div 2 - 1) + Ranked(xs, N \div 2)
            /\ 10 * r.min_latency_ms = Ranked(xs, 0)
            /\ 10 * r.max_latency_ms = Ranked(xs, N - 1)

\* C14, amended: summary() reports, each rounded to two decimals, p95 and p99
\* as the elements at index floor(0.95*N) and floor(0.99*N) of the latencies
\* in ascending order, and their mean, median, minimum and maximum;
\* [10,20,30,40,100] recorded in any order gives p95 = p99 = 100, mean 40,
\* median 30, min 10, max 100.
C14_IndexPercentiles ==
    (main.pc = "returned" /\ metrics.latencies # << >>) =>
        LET xs == metrics.latencies
            N == Len(xs)
            r == main.result
        IN  /\ Rounded(r.p95_latency_ms, Ranked(xs, (95 * N) \div 100), 1)
            /\ Rounded(r.p99_latency_ms, Ranked(xs, (99 * N) \div 100), 1)
            /\ Rounded(r.avg_latency_ms, SumSeq(xs), N)
            /\ IF N % 2 = 1
               THEN Rounded(r.p50_latency_ms, Ranked(xs, (N - 1) \div 2), 1)
               ELSE Rounded(r.p50_latency_ms, Ranked(xs, N \div 2 - 1) + Ranked(xs, N \div 2), 2)
            /\ Rounded(r.min_latency_ms, Ranked(xs, 0), 1)
            /\ Rounded(r.max_latency_ms, Ranked(xs, N - 1), 1)
            /\ (N = 5 /\ {xs[i] : i \in 1..N} = {10000, 20000, 30000, 40000, 100000}) =>
                  /\ r.p95_latency_ms = 10000 /\ r.p99_latency_ms = 10000
                  /\ r.avg_latency_ms = 4000 /\ r.p50_latency_ms = 3000
                  /\ r.min_latency_ms = 1000 /\ r.max_latency_ms = 10000

\* the summary of the five latencies, recorded out of order, has been returned
C14_Witness ==
    /\ mode = "summary" /\ main.pc = "returned"
    /\ metrics.latencies = <<100000, 10000, 40000, 20000, 30000>>
    /\ main.result.p95_latency_ms = 10000
    /\ main.result.p50_latency_ms = 3000

\* no MultiNamespaceMetrics.record call is under way
NoRecordUnderWay ==
    \A t \in Threads : thread[t].pc \notin {"store", "append", "ns_lookup", "ns_get", "ns_missing",
                                            "ns_record", "ns_store", "ns_append"}

\* the collector per_namespace holds for ns (a key never looked up has none: all zero)
CollectorOf(ns) == IF ns \in DOMAIN per_namespace THEN per_namespace[ns] ELSE LoadTestMetrics

RECURSIVE SumCollectors(_, _)
SumCollectors(S, counter) ==
    IF S = {} THEN 0
    ELSE LET ns == CHOOSE x \in S : TRUE
         IN  CollectorOf(ns)[counter] + SumCollectors(S \ {ns}, counter)

\* C15: whenever no record call of a storm is under way, each per-namespace
\* collector holds exactly the outcomes recorded by the workers of its own
\* namespace, and the global operation_count and error_count are the sums of
\* the per-namespace ones.
C15_NamespacesDoNotMix ==
    (mode = "storm" /\ NoRecordUnderWay) =>
        /\ \A ns \in AllNamespaces :
              /\ CollectorOf(ns).operation_count = hist.ns_true[ns]
              /\ CollectorOf(ns).error_count = hist.ns_false[ns]
              /\ Len(CollectorOf(ns).latencies) = hist.ns_true[ns]
        /\ metrics.operation_count = SumCollectors(AllNamespaces, "operation_count")
        /\ metrics.error_count = SumCollectors(AllNamespaces, "error_count")

\* a storm over two namespaces is over with one success recorded under each
C15_Witness ==
    /\ mode = "storm" /\ Terminal /\ NoRecordUnderWay
    /\ \A ns \in AllNamespaces : hist.ns_true[ns] = 1
    /\ metrics.operation_count = 2

\* C16: per_namespace_summary() has an entry for a namespace exactly when a
\* success has been recorded under it (a namespace with only failures, or
\* never recorded, is left out), and an entry's queries and errors are that
\* namespace's operation_count and error_count; so for the table the storm
\* computes at its end, so at every moment no record call is under way.
C16_EntryIffSuccess ==
    /\ (mode = "storm" /\ NoRecordUnderWay) =>
          LET r == per_namespace_summary(per_namespace)
          IN  \A ns \in AllNamespaces :
                 /\ ns \in DOMAIN r <=> hist.ns_true[ns] >= 1
                 /\ ns \in DOMAIN r =>
                       /\ r[ns].queries = CollectorOf(ns).operation_count
                       /\ r[ns].errors = CollectorOf(ns).error_count
    /\ (mode = "storm" /\ main.pc = "returned") =>
          \A ns \in AllNamespaces :
             /\ ns \in DOMAIN main.ns_summary <=> hist.ns_true[ns] >= 1
             /\ ns \in DOMAIN main.ns_summary =>
                   /\ main.ns_summary[ns].queries = hist.ns_true[ns]
                   /\ main.ns_summary[ns].errors = hist.ns_false[ns]

\* a storm has reported: a success under "", only a failure under "a", which has no entry
C16_Witness ==
    /\ mode = "storm" /\ main.pc = "returned"
    /\ hist.ns_true[""] = 1
    /\ hist.ns_true["a"] = 0 /\ hist.ns_false["a"] = 1
    /\ "a" \in DOMAIN per_namespace
    /\ DOMAIN main.ns_summary = {""}

\* C17: when the stats call reports no namespace, the storm returns without
\* launching a worker, issuing a query or starting a metrics collector, and
\* without raising.
C17_NoNamespacesNoOp ==
    (mode = "storm" /\ namespaces = << >>) =>
        /\ main.pc \in {"begin", "returned"}
        /\ futures = << >>
        /\ executor.nthreads = 0
        /\ \A t \in Threads : thread[t].pc = "unspawned"
        /\ hist.issued = 0
        /\ hist.start_calls = 0 /\ metrics.start_time = None

\* the storm has returned from an index without namespaces
C17_Witness ==
    /\ mode = "storm" /\ namespaces = << >>
    /\ main.pc = "returned"
    /\ hist.start_calls = 0

\* C18: with k >= 1 namespaces and t = threads_per_namespace the storm
\* launches k*t workers, t for each namespace, on a pool of k*t threads, one
\* thread per worker (no worker waits in the queue for another to end); a
\* worker queries only the namespace it was launched for and records every
\* outcome under that namespace's key.
C18_WorkersPerNamespace ==
    (mode = "storm" /\ namespaces # << >>) =>
        LET k == Len(namespaces)
            tpn == threads_per_namespace
        IN  /\ main.pc \notin {"begin", "submit"} =>
                  /\ Len(futures) = k * tpn
                  /\ executor.max_workers = k * tpn
                  /\ \A j \in 1..k :
                        Count({i \in DOMAIN futures : futures[i].args = namespaces[j]}) = tpn
            /\ \A i \in DOMAIN futures : futures[i].fn = "query_namespace"
            /\ executor.nthreads = Len(futures)
            /\ Len(executor.work_queue) <= Count({t \in Threads : thread[t].pc = "idle"})
            /\ \A q \in hist.queried \cup hist.keyed : q[2] = futures[q[1]].args

\* the workers of two namespaces have each a query of their own namespace in flight
C18_Witness ==
    /\ mode = "storm" /\ Len(namespaces) = 2
    /\ \A t \in Threads : thread[t].pc = "inflight"
    /\ hist.queried = {<<1, namespaces[1]>>, <<2, namespaces[2]>>}

\* C19: delete_all_vectors issues no delete call when the count read is zero;
\* otherwise it issues exactly one delete-all call and, once that has
\* returned, one further stats read; an error raised by a stats or delete
\* call is caught, and the function returns.
C19_DeleteOnceOrNever ==
    mode = "delete" =>
        /\ main.pc # "raised"
        /\ hist.delete_calls <= 1 /\ hist.stats_calls <= 2
        /\ hist.delete_calls = 1 => (hist.stats_calls >= 1 /\ main.total_vectors # 0)
        /\ hist.stats_calls = 2 => hist.delete_calls = 1
        /\ (main.pc = "returned" /\ main.total_vectors # 0) =>
              /\ hist.delete_calls = 1
              /\ hist.caught = 0 => hist.stats_calls = 2
        /\ hist.caught <= 1
        /\ main.pc \in {"check", "delete", "verify"} => hist.caught = 0

\* 250 vectors were found and deleted and the stats read again
C19_Witness ==
    /\ mode = "delete" /\ main.pc = "returned"
    /\ main.total_vectors = 250
    /\ hist.delete_calls = 1 /\ hist.stats_calls = 2 /\ hist.caught = 0

\* the ids of the vectors of the first n batches built, in order
RECURSIVE IdsOfBatches(_)
IdsOfBatches(n) ==
    IF n = 0 THEN << >>
    ELSE LET v == vectors_of(futures[n].args)
         IN  IdsOfBatches(n - 1) \o [j \in 1..Len(v) |-> v[j].id]

\* C20: the vector ids of the batches built in a write run are, in order,
\* vec-0, vec-1, ...: no id occurs twice, in one batch or in two, and once
\* the submission loop is over they are exactly vec-0 .. vec-(num_vectors-1).
C20_IdsUniqueSequential ==
    mode = "write" =>
        LET ids == IdsOfBatches(Len(futures))
        IN  /\ \A k \in 1..Len(ids) : ids[k] = <<"vec-", k - 1>>
            /\ AfterSubmit => Len(ids) = num_vectors

\* the third batch of a run of 250 vectors ends with vec-249
C20_Witness ==
    /\ AfterSubmit /\ num_vectors = 250
    /\ Len(futures) = 3
    /\ vectors_of(futures[3].args)[50].id = <<"vec-", 249>>
    /\ vectors_of(futures[2].args)[1].id = <<"vec-", 100>>

\* C22 as stated: no throughput computation divides by zero: summary() gives
\* ops_per_sec 0 when the elapsed time is <= 0, and the division of the write
\* report (vectors upserted by the summary's elapsed seconds) never raises
\* ZeroDivisionError, also when the elapsed time rounds to 0 (stated for the
\* runs in which an upsert succeeded, whose summary carries the rounded time).
C22_NoZeroDivision ==
    /\ (metrics.latencies # << >> /\ Or(metrics.end_time, now) - Or(metrics.start_time, now) <= 0)
          => summary(metrics, now).ops_per_sec = 0
    /\ hist.returned >= 1 => main.exc # "ZeroDivisionError"

\* C21 as stated: a summary() call made while workers record returns values
\* computed from one snapshot of the collector: the operations it reports is
\* the number of latencies its statistics were computed over.
C21_OneSnapshot ==
    (reader.pc = "done" /\ reader.m.latencies # << >>) =>
        reader.result.operations = Len(reader.m.latencies)

\* thread t runs a query worker (query_random or query_namespace)
QueryWorker(t) == thread[t].task # 0 /\ futures[thread[t].task].fn # "upsert_batch"

\* C24: cancellation is cooperative, by a check before every iteration: a
\* query worker gets to a query only from a loop check that saw the signal
\* unset; a check that sees the signal set ends the worker without a query
\* (so a worker whose first check comes after the set issues none); and a
\* worker starts at most one query after the set, and exits at its next check.
C24_CheckedBeforeEveryQuery ==
    /\ [](\A t \in Threads : thread[t].late <= 1)
    /\ [][\A t \in Threads :
            /\ (thread'[t].pc = "call" /\ thread[t].pc # "call" /\ QueryWorker(t))
                  => (thread[t].pc = "check" /\ ~stop_event)
            /\ (thread[t].pc = "check" /\ stop_event /\ thread'[t] # thread[t])
                  => /\ thread'[t].pc = "idle"
                     /\ futures'[thread[t].task].state = "FINISHED"
                     /\ hist'.issued = hist.issued
            /\ (thread[t].pc = "call" /\ thread'[t].pc # "call") => thread'[t].pc = "inflight"]_vars

\* a read run of two workers is over: one started its only query after the
\* signal was set, the other saw the signal at its first check and issued none
C24_Witness ==
    /\ mode = "read" /\ num_threads = 2 /\ Terminal
    /\ Len(futures) = 2 /\ \A i \in DOMAIN futures : futures[i].state = "FINISHED"
    /\ hist.issued = 1
    /\ \E t \in Threads : thread[t].late = 1

\* C25: the stop signal is write-once: it is unset until the progress loop is
\* over; it changes only from unset to set, in a step of the orchestrator
\* (no worker moves) that leaves the progress loop with the configured
\* duration elapsed; once set it is never cleared.
C25_StopSignalWriteOnce ==
    /\ [](main.pc \in {"begin", "submit", "progress"} => ~stop_event)
    /\ [][stop_event' # stop_event =>
            /\ ~stop_event /\ stop_event'
            /\ main.pc = "progress" /\ main'.pc = "shutdown"
            /\ now - main.loop_start >= 1000 * duration_seconds
            /\ thread' = thread]_vars
    /\ [][stop_event => stop_event']_vars

\* a timed run of one second is over, the signal set after the sleep and still set
C25_Witness ==
    /\ mode \in {"read", "storm"} /\ duration_seconds = 1
    /\ Terminal /\ stop_event
    /\ now - main.loop_start >= 1000
    /\ hist.issued >= 1

\* the collectors of the run: the run's own, and those of the namespaces
Collectors == <<metrics>> \o [i \in 1..Len(namespaces) |-> CollectorOf(namespaces[i])]

\* thread t is in a record call (on either collector) with this success argument
Recording(t, success) ==
    /\ thread[t].pc \in {"record", "store", "append", "ns_lookup", "ns_get", "ns_missing",
                          "ns_record", "ns_store", "ns_append"}
    /\ thread[t].success = success

\* C26: record leaves the other side of a collector untouched: the steps of a
\* record with success=False change nothing of a collector but its
\* error_count, by one at a time (the placeholder latency 0 never enters
\* latencies), the steps of a record with success=True leave error_count
\* unchanged, and no counter of a collector ever decreases.
C26_RecordFrame ==
    /\ [](\A c \in DOMAIN Collectors :
            \A i \in DOMAIN Collectors[c].latencies : Collectors[c].latencies[i] # 0)
    /\ [][\A c \in DOMAIN Collectors :
            /\ Collectors'[c].operation_count >= Collectors[c].operation_count
            /\ Collectors'[c].error_count >= Collectors[c].error_count
            /\ \A t \in Threads :
                  /\ (Recording(t, FALSE) /\ thread'[t] # thread[t]) =>
                        /\ Collectors'[c].operation_count = Collectors[c].operation_count
                        /\ Collectors'[c].latencies = Collectors[c].latencies
                        /\ Collectors'[c].error_count \in
                              {Collectors[c].error_count, Collectors[c].error_count + 1}
                  /\ (Recording(t, TRUE) /\ thread'[t] # thread[t]) =>
                        Collectors'[c].error_count = Collectors[c].error_count]_vars

\* a storm is over with a success and then a failure recorded under one
\* namespace: one latency, one operation, one error on both collectors
C26_Witness ==
    /\ mode = "storm" /\ Terminal
    /\ namespaces = <<"">>
    /\ metrics.operation_count = 1 /\ metrics.error_count = 1 /\ metrics.latencies = <<1234>>
    /\ per_namespace[""].operation_count = 1 /\ per_namespace[""].error_count = 1
    /\ per_namespace[""].latencies = <<1234>>

\* the threads with a target call in flight
InFlight == {t \in Threads : thread[t].pc = "inflight"}

\* C27: in a write run with num_threads = N at most N upsert calls are in
\* flight at any moment: the pool never has more than N threads, each runs
\* one work item at a time, and the other batches wait in the queue.
C27_AtMostNInFlight ==
    mode = "write" =>
        /\ Count(InFlight) <= num_threads
        /\ executor.nthreads <= num_threads
        /\ Count({t \in Threads : thread[t].pc # "unspawned"}) <= num_threads
        /\ Count({i \in DOMAIN futures : futures[i].state = "RUNNING"}) <= num_threads

\* three batches on one thread: the first upsert is in flight, the others queued
C27_Witness ==
    /\ mode = "write" /\ num_threads = 1
    /\ Len(futures) = 3
    /\ Count(InFlight) = 1
    /\ Len(executor.work_queue) = 2

\* start_id and count values generate_vector_batch is tried on, besides those of the run
StartIds == {0, 7, 100, 199, 250}
Counts == {0, 1, 3}

\* C28: generate_vector_batch(start_id, count) returns exactly count vectors,
\* the i-th (from 0) with id vec-(start_id+i), every one tagged with batch_id
\* = start_id integer-divided by BATCH_SIZE (generate_vector_batch(199, 3)
\* gives vec-199, vec-200, vec-201, all tagged 1); in a write run the batch_id
\* of a batch is its position in the work list, the same for all its vectors.
C28_BatchIdsAndTags ==
    /\ \A start_id \in StartIds : \A count \in Counts :
          LET v == generate_vector_batch(start_id, count)
          IN  /\ Len(v) = count
              /\ \A i \in 0..(count - 1) :
                    /\ v[i + 1].id = <<"vec-", start_id + i>>
                    /\ BATCH_SIZE * v[i + 1].metadata.batch_id <= start_id
                    /\ start_id < BATCH_SIZE * (v[i + 1].metadata.batch_id + 1)
    /\ generate_vector_batch(199, 3) =
          <<[id |-> <<"vec-", 199>>, metadata |-> [batch_id |-> 1]],
            [id |-> <<"vec-", 200>>, metadata |-> [batch_id |-> 1]],
            [id |-> <<"vec-", 201>>, metadata |-> [batch_id |-> 1]]>>
    /\ mode = "write" =>
          \A k \in DOMAIN futures :
             LET v == vectors_of(futures[k].args)
             IN  /\ Len(v) = futures[k].args.count
                 /\ \A j \in DOMAIN v : v[j].metadata.batch_id = k - 1

\* the third batch of a run of 250 vectors: 50 vectors, vec-200 first, all tagged 2
C28_Witness ==
    /\ AfterSubmit /\ num_vectors = 250
    /\ Len(futures) = 3
    /\ Len(vectors_of(futures[3].args)) = 50
    /\ vectors_of(futures[3].args)[1] = [id |-> <<"vec-", 200>>, metadata |-> [batch_id |-> 2]]
    /\ vectors_of(futures[3].args)[50].metadata.batch_id = 2

\* the record calls with this success argument that have stored the global
\* counter and not yet the per-namespace one
BetweenUpdates(success) ==
    {t \in Threads : /\ thread[t].pc \in {"append", "ns_lookup", "ns_get", "ns_missing",
                                          "ns_record", "ns_store"}
                     /\ thread[t].success = success}

\* the record calls in progress (entered and not yet returned)
InProgress ==
    {t \in Threads : thread[t].pc \in {"record", "store", "append", "ns_lookup", "ns_get",
                                       "ns_missing", "ns_record", "ns_store", "ns_append"}}

\* C29: in every state of a storm, those in the middle of record calls
\* included, the global operation_count is at least the sum of the
\* per-namespace operation_counts, and error_count likewise; the difference is
\* the number of calls between their two updates, so at most the number of
\* record calls in progress.
C29_GlobalLeadsNamespaces ==
    mode = "storm" =>
        LET ops == metrics.operation_count - SumCollectors(AllNamespaces, "operation_count")
            errs == metrics.error_count - SumCollectors(AllNamespaces, "error_count")
        IN  /\ ops >= 0 /\ errs >= 0
            /\ ops = Count(BetweenUpdates(TRUE))
            /\ errs = Count(BetweenUpdates(FALSE))
            /\ ops + errs <= Count(InProgress)

\* one record call of a storm is over and another is between its two updates:
\* the global count is 2, the per-namespace counts sum to 1
C29_Witness ==
    /\ mode = "storm"
    /\ \E t \in Threads : thread[t].pc = "ns_record" /\ thread[t].success
    /\ metrics.operation_count = 2
    /\ SumCollectors(AllNamespaces, "operation_count") = 1

\* thread t holds the lock of the run's collector, of the aggregator, of a namespace's collector
HoldsGlobal(t) == metrics.lock = t
HoldsAgg(t) == agg_lock = t
HoldsNs(t) == \E ns \in DOMAIN per_namespace : per_namespace[ns].lock = t

\* C30: the metrics locks cannot deadlock or stall the pool: no worker holds
\* the aggregator lock together with a collector lock (nor two collector
\* locks); no lock is held while a target call is in flight; a lock is held
\* only inside its `with` block, by a worker whose next step waits for
\* nothing, and the block's last step releases it; so a worker whose record
\* call finds every other worker in a target call (hung or not), or idle, can
\* take the lock at once.
C30_LocksCannotDeadlock ==
    /\ [](\A t \in Threads :
            /\ ~(HoldsAgg(t) /\ (HoldsGlobal(t) \/ HoldsNs(t)))
            /\ ~(HoldsGlobal(t) /\ HoldsNs(t))
            /\ thread[t].pc = "inflight" => ~(HoldsGlobal(t) \/ HoldsAgg(t) \/ HoldsNs(t))
            /\ HoldsGlobal(t) =>
                  /\ thread[t].pc \in {"store", "append"}
                  /\ ENABLED (metrics_record_store(t) \/ metrics_record_finish(t))
            /\ HoldsAgg(t) =>
                  /\ thread[t].pc \in {"ns_get", "ns_missing"}
                  /\ ENABLED (ns_get(t) \/ ns_missing(t))
            /\ HoldsNs(t) =>
                  /\ thread[t].pc \in {"ns_store", "ns_append"}
                  /\ per_namespace[namespace_of(t)].lock = t
                  /\ ENABLED (ns_record_store(t) \/ ns_record_finish(t))
            /\ (\A u \in Threads \ {t} : thread[u].pc \in {"unspawned", "idle", "inflight", "exited"}) =>
                  /\ thread[t].pc = "record" => ENABLED metrics_record_acquire(t)
                  /\ thread[t].pc = "ns_lookup" => ENABLED ns_lookup_acquire(t)
                  /\ thread[t].pc = "ns_record" => ENABLED ns_record_acquire(t))
    /\ [][\A t \in Threads :
            /\ (thread[t].pc = "append" /\ thread'[t] # thread[t]) => metrics'.lock = 0
            /\ (thread[t].pc \in {"ns_get", "ns_missing"} /\ thread'[t].pc = "ns_record") => agg_lock' = 0
            /\ (thread[t].pc = "ns_append" /\ thread'[t] # thread[t]) =>
                  per_namespace'[namespace_of(t)].lock = 0]_vars

\* in a storm one worker records under its namespace's lock while the other
\* worker's query is still in flight
C30_Witness ==
    /\ mode = "storm"
    /\ thread[1].pc = "inflight"
    /\ thread[2].pc = "ns_store" /\ HoldsNs(2)
    /\ metrics.operation_count + metrics.error_count >= 1

\* lengths of latency lists the percentile indices are computed for, besides
\* those of the collectors summarised
IndexLengths == (1..21) \cup {99, 100, 101, 199, 200}

\* C31: for every N >= 1 the indices floor(0.95*N) and floor(0.99*N) that
\* summary() uses lie in 0..N-1: the lookup in the N sorted latencies stays
\* within the list (and summary() of a collector with latencies returns its
\* percentile fields).
C31_PercentileIndexInRange ==
    /\ \A N \in (IndexLengths \cup {Len(metrics.latencies)}) \ {0} :
          /\ percentile_index(N, 95) \in 0..(N - 1)
          /\ percentile_index(N, 99) \in 0..(N - 1)
          /\ 100 * percentile_index(N, 95) <= 95 * N /\ 95 * N < 100 * (percentile_index(N, 95) + 1)
          /\ 100 * percentile_index(N, 99) <= 99 * N /\ 99 * N < 100 * (percentile_index(N, 99) + 1)
    /\ (main.pc = "returned" /\ metrics.latencies # << >>) =>
          {"p95_latency_ms", "p99_latency_ms"} \subseteq DOMAIN main.result

\* summary() has returned for five latencies: both indices are 4, the last of the list
C31_Witness ==
    /\ mode = "summary" /\ main.pc = "returned"
    /\ Len(metrics.latencies) = 5
    /\ percentile_index(5, 95) = 4 /\ percentile_index(5, 99) = 4
    /\ main.result.p99_latency_ms = main.result.max_latency_ms

\* the sum of a field over the entries of a per-namespace table
RECURSIVE SumEntries(_, _, _)
SumEntries(table, S, field) ==
    IF S = {} THEN 0
    ELSE LET ns == CHOOSE x \in S : TRUE
         IN  table[ns][field] + SumEntries(table, S \ {ns}, field)

\* C32: in the final report of a storm the 'queries' of the entries of
\* per_namespace_summary() sum to the 'operations' of the aggregate
\* summary(), and their 'errors' sum to at most the aggregate 'errors' (a
\* namespace with failures only has no entry).
C32_BreakdownAddsUp ==
    (mode = "storm" /\ main.pc = "returned" /\ namespaces # << >>) =>
        LET s == summary(metrics, now)
            table == main.ns_summary
        IN  /\ SumEntries(table, DOMAIN table, "queries") = s.operations
            /\ SumEntries(table, DOMAIN table, "errors") <= s.errors

\* a storm over two namespaces has reported: a success under "", a failure
\* under "a", so the entries' errors sum to 0 and the aggregate errors is 1
C32_Witness ==
    /\ mode = "storm" /\ main.pc = "returned"
    /\ DOMAIN main.ns_summary = {""}
    /\ main.ns_summary[""].queries = 1 /\ main.ns_summary[""].errors = 0
    /\ summary(metrics, now).operations = 1 /\ summary(metrics, now).errors = 1

\* C33: monitor_import returns a status object only when the status it
\* polled is Completed, Failed or Cancelled (the object returned is the one
\* polled last); a poll that raises does not end the monitoring: the handler
\* sleeps and the loop polls again; the only other way out is Ctrl+C, and
\* that returns None.
C33_MonitorImportExits ==
    /\ [](monitor.pc = "returned" =>
            /\ (monitor.result = NoStatus) <=> monitor.interrupted
            /\ ~monitor.interrupted =>
                  /\ monitor.result = monitor.status
                  /\ monitor.result.status \in ImportTerminal)
    /\ [][(monitor.pc # "returned" /\ monitor'.pc = "returned") =>
             \/ monitor'.interrupted /\ monitor'.result = NoStatus
             \/ /\ monitor.pc = "decide"
                /\ monitor.status.status \in ImportTerminal
                /\ monitor'.result = monitor.status]_vars
    /\ [][(monitor.pc = "poll" /\ monitor'.errors > monitor.errors) =>
             monitor'.pc = "except"]_vars
    /\ [][(monitor.pc = "except" /\ monitor' # monitor) =>
             monitor'.pc = "sleep" \/ monitor'.interrupted]_vars
    /\ [][(monitor.pc = "sleep" /\ monitor' # monitor) =>
             monitor'.pc = "poll" \/ monitor'.interrupted]_vars
    /\ [](monitor.pc \in {"except", "sleep"} => ENABLED MonitorImportStep)
    /\ []((monitor.pc = "decide" /\ monitor.status.status \notin ImportTerminal) =>
             ~ENABLED (MonitorImportStep /\ monitor'.pc = "returned"))

\* monitor_import returned a Completed import after as many raised polls as
\* are counted, and after a poll that saw it unfinished
C33_Witness ==
    /\ mode = "monitor_import" /\ monitor.pc = "returned"
    /\ monitor.errors = MaxPolls /\ monitor.polls = MaxPolls
    /\ ~monitor.interrupted
    /\ monitor.result = [status |-> "Completed"]

\* Ctrl+C during a sleep that followed a raised poll: None is returned
C33_WitnessInterrupt ==
    /\ mode = "monitor_import" /\ monitor.pc = "returned"
    /\ monitor.interrupted /\ monitor.result = NoStatus /\ monitor.errors >= 1

\* C34: monitor_backup returns only when the status it polled is Ready,
\* Failed or Cancelled, and the backup returned is the one polled last; and
\* if the backup comes to such a status and polls go on succeeding from time
\* to time, monitor_backup returns that backup, however many polls raised
\* before.
C34_MonitorBackupReturns ==
    /\ [](monitor.pc = "returned" =>
            /\ monitor.result = monitor.status
            /\ monitor.result.status \in BackupTerminal)
    /\ [][(monitor.pc # "returned" /\ monitor'.pc = "returned") =>
             /\ monitor.pc = "decide"
             /\ monitor.status.status \in BackupTerminal
             /\ monitor'.result = monitor.status]_vars
    /\ (/\ <>(remote.status \in BackupTerminal)
        /\ []<>(monitor.pc \in {"decide", "returned"}))
          => <>(/\ monitor.pc = "returned"
                /\ monitor.result = [status |-> remote.status]
                /\ remote.status \in BackupTerminal)

\* monitor_backup returned a Failed backup after as many raised polls as are
\* counted, and after a poll that saw it unfinished
C34_Witness ==
    /\ mode = "monitor_backup" /\ monitor.pc = "returned"
    /\ monitor.errors = MaxPolls /\ monitor.polls = MaxPolls
    /\ monitor.result = [status |-> "Failed"]
    /\ remote.status = "Failed"

\* thread t is in a MultiNamespaceMetrics.record call for namespace ns
RecordingUnder(t, ns) ==
    /\ thread[t].pc \in {"store", "append", "ns_lookup", "ns_get", "ns_missing",
                          "ns_record", "ns_store", "ns_append"}
    /\ futures[thread[t].task].args = ns

\* C23: the collector of a namespace is created by the first record for it,
\* once, and is never removed or replaced (from then on only record calls
\* change it, and its counters and latencies only grow), also when several
\* workers make the first record for the namespace at the same time: the one
\* collector then holds the outcomes of all their calls.
C23_OneCollectorPerNamespace ==
    /\ [](mode = "storm" =>
            \A ns \in AllNamespaces :
               /\ hist.created[ns] <= 1
               /\ ns \in DOMAIN per_namespace <=> hist.created[ns] = 1
               /\ ns \in DOMAIN per_namespace <=> \E q \in hist.keyed : q[2] = ns
               /\ (\A t \in Threads : ~RecordingUnder(t, ns)) =>
                     /\ CollectorOf(ns).operation_count = hist.ns_true[ns]
                     /\ CollectorOf(ns).error_count = hist.ns_false[ns])
    /\ [][\A ns \in DOMAIN per_namespace :
            /\ ns \in DOMAIN per_namespace'
            /\ per_namespace'[ns].operation_count >= per_namespace[ns].operation_count
            /\ per_namespace'[ns].error_count >= per_namespace[ns].error_count
            /\ Len(per_namespace'[ns].latencies) >= Len(per_namespace[ns].latencies)
            /\ SubSeq(per_namespace'[ns].latencies, 1, Len(per_namespace[ns].latencies))
                  = per_namespace[ns].latencies]_vars

\* two workers of one namespace made its first record at the same time, and
\* the storm is over with the one collector holding both outcomes
C23_Witness ==
    /\ mode = "storm" /\ Terminal
    /\ hist.contended
    /\ hist.created[""] = 1
    /\ per_namespace[""].operation_count + per_namespace[""].error_count = 2

====
